---- MODULE Spec2Model ----
(***************************************************************************)
(* Model of tsfc/loopy.py: the lowering of an Impero tree over a GEM       *)
(* expression graph into loopy instructions, domains and a kernel.         *)
(*                                                                         *)
(* A behaviour is a sequence of generate() calls.  Within one call the     *)
(* Impero tree is walked statement by statement: the children of a Block   *)
(* are lowered one after the other, a For opens a scope (statement_for up  *)
(* to the entry of its `with` block) and closes it when its body has been  *)
(* lowered (the code after `yield` in active_indices).  The expression     *)
(* graph is a fixed arena of nodes addressed by identity (their number).   *)
(***************************************************************************)
EXTENDS Integers, Sequences, FiniteSets, TLC

VARIABLES
    matfree_solve_knl,  \* the module-level global (loopy.py:26-27)
    phase,              \* "idle" | "lowering" | "returned" | "aborted"
    exc,                \* the exception that aborted the call, "" if none
    return_increments,  \* ctx.return_increments
    scalar_type,        \* ctx.scalar_type
    active_indices,     \* ctx.active_indices: gem index -> loop variable
    index_extent,       \* ctx.index_extent: ordered (name, extent) pairs
    gem_to_pymbolic,    \* ctx.gem_to_pymbolic: node -> name ("" = absent)
    name_gen,           \* the names ctx.name_gen has handed out
    instructions,       \* the instructions emitted so far, in order
    scopes,             \* the `with active_indices(...)` blocks now open
    result,             \* what generate() returned
    hist,               \* history of the current call (observation only)
    last,               \* the statement lowered by the last step
    sv, seps, sout,     \* input and output of one _expression_scalar call
    eroot, eout,        \* input and outcome of one expression() call
    dscalar,            \* assign_dtypes: the declared scalar type
    dnodes,             \* assign_dtypes: the expression nodes, children first
    dcache,             \* assign_dtypes: the Memoizer's result for each node
    cg,                 \* one run of the conjugate-gradient kernel
    tree                \* the Impero tree given to one statement() call

ctxvars == <<return_increments, scalar_type, active_indices, index_extent,
             gem_to_pymbolic, name_gen, instructions, scopes>>
scalarvars == <<sv, seps, sout>>
exprvars == <<eroot, eout>>
dtypevars == <<dscalar, dnodes, dcache>>
cgvars == <<cg>>
treevars == <<tree>>
\* what a generate() call does not touch
sidevars == <<scalarvars, exprvars, dtypevars, cgvars, treevars>>
\* the state of the generate() calls
mainvars == <<matfree_solve_knl, phase, exc, ctxvars, result, hist, last>>
vars == <<mainvars, sidevars>>

-----------------------------------------------------------------------------
(* Bounds of the model *)

\* statement nodes (For and leaf statements) lowered by one generate() call
MaxNodes == 3
\* children of one Block of the Impero tree
MaxChildren == 2
\* scalar constants range over -MaxTenths/10 .. MaxTenths/10 plus offsets
MaxTenths == 3
\* expression nodes given to one assign_dtypes() call
MaxDtypeNodes == 3
\* the size n = shape[0] of the system the CG kernel is built for
MaxSize == 2

-----------------------------------------------------------------------------
(* pymbolic expressions: one record shape for every primitive *)

PExpr(op, name, args, num) == [op |-> op, name |-> name, args |-> args, num |-> num]
PVariable(name) == PExpr("Variable", name, <<>>, 0)
PInt(n) == PExpr("Int", "", <<>>, n)
PFloat(x) == PExpr("Float", "", <<>>, x)
PSubscript(aggregate, index) == PExpr("Subscript", "", <<aggregate>> \o index, 0)
PNary(op, args) == PExpr(op, "", args, 0)
PCall(f, args) == PExpr("Call", f, args, 0)
\* SubArrayRef(swept_inames, subscript)
PSubArrayRef(inames, sub) == PExpr("SubArrayRef", "", <<sub>> \o inames, 0)
PNone == PExpr("None", "", <<>>, 0)

IsSubscript(pym) == pym.op = "Subscript"
Aggregate(pym) == pym.args[1]
IndexTuple(pym) == SubSeq(pym.args, 2, Len(pym.args))

-----------------------------------------------------------------------------
(* The input of generate(): gem indices, the expression graph, impero_c *)

\* gem.Index instances: their own name ("" = none), their extent, and the
\* name the caller pre-assigned in index_names ("i" is the defaultdict's default)
IndexTable ==
    <<[name |-> "",  extent |-> 3, index_name |-> "i"],
      [name |-> "j", extent |-> 2, index_name |-> "j"],
      [name |-> "",  extent |-> 0, index_name |-> "i"],
      [name |-> "",  extent |-> -1, index_name |-> "i"]>>
Indices == DOMAIN IndexTable

MIndex(k) == [t |-> "Index", i |-> k]
MVariableIndex(e) == [t |-> "VariableIndex", i |-> e]
MInt(n) == [t |-> "int", i |-> n]

\* units of a scalar constant: 10^8 units = 1.0, so one decimal is 10^7 units
OneDecimal == 10 ^ 7
Value(x) == [nan |-> FALSE, x |-> x]
NaN == [nan |-> TRUE, x |-> 0]

GemNode(kind, name, children, multiindex, shape) ==
    [kind |-> kind, name |-> name, children |-> children,
     multiindex |-> multiindex, shape |-> shape, value |-> Value(0),
     matfree |-> FALSE, indices |-> <<>>, dim2idxs |-> <<>>]

\* one entry of FlexiblyIndexed.dim2idxs: (off, ((index, stride), ...))
Dim(off, idxs) == [off |-> off, idxs |-> idxs]
IndexStride(index, stride) == [index |-> index, stride |-> stride]

\* The expression graph.  A node is its position: two entries with the same
\* content (1 and 20) are two instances.
Nodes ==
    <<GemNode("Variable", "A", <<>>, <<>>, <<3>>),                        \* 1
      GemNode("Variable", "B", <<>>, <<>>, <<3>>),                        \* 2
      GemNode("Variable", "y", <<>>, <<>>, <<3>>),                        \* 3
      GemNode("Indexed", "", <<1>>, <<MIndex(1)>>, <<>>),                 \* 4
      GemNode("Indexed", "", <<2>>, <<MIndex(1)>>, <<>>),                 \* 5
      GemNode("Sum", "", <<4, 5>>, <<>>, <<>>),                           \* 6
      GemNode("Indexed", "", <<3>>, <<MIndex(1)>>, <<>>),                 \* 7
      GemNode("Failure", "", <<>>, <<>>, <<>>),                           \* 8
      GemNode("Sum", "", <<4, 8>>, <<>>, <<>>),                           \* 9
      [GemNode("Product", "", <<4, 5>>, <<>>, <<>>)
          EXCEPT !.indices = <<MIndex(1)>>],                              \* 10
      GemNode("Sum", "", <<10, 4>>, <<>>, <<>>),                          \* 11
      [GemNode("Constant", "", <<>>, <<>>, <<>>)
          EXCEPT !.value = Value(3 * OneDecimal - 1)],                    \* 12
      GemNode("Product", "", <<12, 4>>, <<>>, <<>>),                      \* 13
      GemNode("ComponentTensor", "", <<15>>, <<MIndex(2)>>, <<2>>),       \* 14
      GemNode("Indexed", "", <<2>>, <<MIndex(2)>>, <<>>),                 \* 15
      [GemNode("Solve", "", <<17, 2>>, <<>>, <<3>>)
          EXCEPT !.matfree = TRUE],                                       \* 16
      GemNode("Variable", "M", <<>>, <<>>, <<3, 3>>),                     \* 17
      GemNode("Solve", "", <<17, 2>>, <<>>, <<3>>),                       \* 18
      GemNode("Variable", "t0", <<>>, <<>>, <<>>),                        \* 19
      GemNode("Variable", "A", <<>>, <<>>, <<3>>),                        \* 20
      GemNode("Failure", "", <<>>, <<>>, <<>>),                           \* 21
      GemNode("Sum", "", <<4, 21>>, <<>>, <<>>),                          \* 22
      [GemNode("FlexiblyIndexed", "", <<1>>, <<>>, <<>>)
          EXCEPT !.dim2idxs =
              <<Dim(2, <<IndexStride(MIndex(1), 3), IndexStride(MIndex(2), 1)>>)>>],  \* 23
      [GemNode("FlexiblyIndexed", "", <<17>>, <<>>, <<>>)
          EXCEPT !.dim2idxs =
              <<Dim(0, <<IndexStride(MIndex(2), 2)>>), Dim(1, <<>>)>>],   \* 24
      [GemNode("FlexiblyIndexed", "", <<1>>, <<>>, <<>>)
          EXCEPT !.dim2idxs =
              <<Dim(1, <<IndexStride(MIndex(1), 2), IndexStride(MIndex(1), 1)>>)>>],  \* 25
      [GemNode("FlexiblyIndexed", "", <<1>>, <<>>, <<>>)
          EXCEPT !.dim2idxs = <<Dim(0, <<IndexStride(MInt(0), 1)>>)>>],   \* 26
      [GemNode("Solve", "", <<17, 2>>, <<>>, <<2>>)
          EXCEPT !.matfree = TRUE],                                       \* 27
      GemNode("IndexSum", "", <<4>>, <<MIndex(1)>>, <<>>),                \* 28
      GemNode("Constant", "", <<>>, <<>>, <<>>),                          \* 29
      [GemNode("Constant", "", <<>>, <<>>, <<>>)
          EXCEPT !.value = Value(10 * OneDecimal)],                       \* 30
      [GemNode("Constant", "", <<>>, <<>>, <<>>)
          EXCEPT !.value = Value(20 * OneDecimal)],                       \* 31
      GemNode("Variable", "x", <<>>, <<>>, <<>>),                         \* 32
      GemNode("MathFunction", "cyl_bessel_j", <<29, 32>>, <<>>, <<>>),    \* 33
      GemNode("MathFunction", "cyl_bessel_j", <<30, 32>>, <<>>, <<>>),    \* 34
      GemNode("MathFunction", "cyl_bessel_j", <<31, 32>>, <<>>, <<>>),    \* 35
      GemNode("MathFunction", "cyl_bessel_y", <<29, 32>>, <<>>, <<>>),    \* 36
      GemNode("MathFunction", "cyl_bessel_y", <<30, 32>>, <<>>, <<>>),    \* 37
      GemNode("MathFunction", "cyl_bessel_y", <<32, 32>>, <<>>, <<>>),    \* 38
      GemNode("MathFunction", "cyl_bessel_i", <<30, 32>>, <<>>, <<>>),    \* 39
      GemNode("MathFunction", "cyl_bessel_k", <<29, 32>>, <<>>, <<>>),    \* 40
      GemNode("MathFunction", "ln", <<32>>, <<>>, <<>>),                  \* 41
      GemNode("MathFunction", "sin", <<32>>, <<>>, <<>>),                 \* 42
      [GemNode("ComponentTensor", "", <<15>>, <<MIndex(2)>>, <<2>>)
          EXCEPT !.indices = <<MIndex(1)>>],                              \* 43
      GemNode("Indexed", "", <<43>>, <<MIndex(2)>>, <<>>),                \* 44
      GemNode("Indexed", "", <<17>>, <<MIndex(1), MInt(0)>>, <<>>),       \* 45
      GemNode("Indexed", "", <<1>>, <<MVariableIndex(32)>>, <<>>),        \* 46
      GemNode("Indexed", "", <<43>>, <<MVariableIndex(46)>>, <<>>)>>      \* 47
NodeIds == DOMAIN Nodes

\* impero_c.temporaries, in order: they are named t0, t1, ...
Temporaries == <<10, 14, 16, 18, 21, 27, 28, 43>>
IsTemporary(n) == \E i \in DOMAIN Temporaries : Temporaries[i] = n

\* gem classes that carry a `name` attribute
HasName(n) == Nodes[n].kind \in {"Variable", "MathFunction"}

\* Leaf statements of the Impero tree
\* (an Accumulate or ReturnAccumulate holds its index-sum as `expression`)
Leaf(kind, variable, expression) ==
    [kind |-> kind, variable |-> variable, expression |-> expression]
Leaves ==
    {Leaf("Return", 7, 6), Leaf("Return", 7, 9), Leaf("Return", 7, 11),
     Leaf("Return", 7, 13), Leaf("Return", 7, 22), Leaf("Return", 20, 19),
     Leaf("Evaluate", 0, 8), Leaf("Evaluate", 0, 10), Leaf("Evaluate", 0, 12),
     Leaf("Evaluate", 0, 14), Leaf("Evaluate", 0, 16), Leaf("Evaluate", 0, 18),
     Leaf("Evaluate", 0, 21), Leaf("Evaluate", 0, 27),
     Leaf("Accumulate", 0, 28), Leaf("ReturnAccumulate", 3, 28)}

ScalarTypes == {"float64"}
\* numpy.finfo(scalar_type).resolution in units: 1e-15 is below one unit, so
\* |v - r| < 1e-15 holds on the grid exactly when |v - r| < 1 unit
Resolution(st) == IF st = "float32" THEN 100 ELSE 1
\* tsfc.parameters.is_complex(scalar_type)
is_complex(st) == st \in {"complex64", "complex128"}

\* nu == gem.Zero() and nu == gem.one: the scalar literals 0 and 1
IsZero(n) ==
    Nodes[n].kind = "Constant" /\ Nodes[n].shape = <<>> /\ Nodes[n].value = Value(0)
IsOne(n) ==
    /\ Nodes[n].kind = "Constant" /\ Nodes[n].shape = <<>>
    /\ Nodes[n].value = Value(10 * OneDecimal)

\* expr.name.startswith('cyl_bessel_'), and expr.name[-1:]
BesselNames == {"cyl_bessel_i", "cyl_bessel_j", "cyl_bessel_k", "cyl_bessel_y"}
LastLetter(name) ==
    CASE name = "cyl_bessel_i" -> "i"
      [] name = "cyl_bessel_j" -> "j"
      [] name = "cyl_bessel_k" -> "k"
      [] name = "cyl_bessel_y" -> "y"

-----------------------------------------------------------------------------
(* LoopyContext, threaded through the lowering as one record *)

NoBinding == [name |-> "", act |-> 0]

\* an operation's outcome: the context it leaves, its value, and the
\* exception it raised ("" when it returned)
Outcome(c, val, e) == [ctx |-> c, val |-> val, exc |-> e]
Raise(c, e) == Outcome(c, PNone, e)

\* F applied to the value of v, v being evaluated once
Then(v, F(_)) == CHOOSE y \in {F(r) : r \in {v}} : TRUE

\* F applied to the outcome of an operation if it returned, else the
\* outcome (its exception propagates)
Try(v, F(_)) == CHOOSE y \in {IF r.exc # "" THEN r ELSE F(r) : r \in {v}} : TRUE

FailureException(n) == "Failure" \o ToString(n)

RECURSIVE UniqueNameFrom(_, _, _)
UniqueNameFrom(based_on, existing, k) ==
    LET var_name == IF k = 0 THEN based_on
                    ELSE based_on \o "_" \o ToString(k - 1)
    IN  IF var_name \in existing THEN UniqueNameFrom(based_on, existing, k + 1)
        ELSE var_name

\* pytools.UniqueNameGenerator.__call__: the first of based_on, based_on_0,
\* based_on_1, ... that it has not handed out yet
UniqueName(based_on, existing) == UniqueNameFrom(based_on, existing, 0)

\* name = ctx.name_gen(based_on)
NameGen(c, based_on) ==
    Then(UniqueName(based_on, c.name_gen), LAMBDA name :
        Outcome([c EXCEPT !.name_gen = @ \cup {name}], name, ""))

ExtentNames(ie) == {ie[k].name : k \in DOMAIN ie}

\* ctx.index_extent[name] = extent, on an OrderedDict: a new key goes last,
\* an existing key keeps its place and gets the new extent
SetExtent(c, name, extent) ==
    [c EXCEPT !.index_extent =
                  IF name \in ExtentNames(@)
                  THEN [k \in DOMAIN @ |->
                           IF @[k].name = name
                           THEN [name |-> name, extent |-> extent] ELSE @[k]]
                  ELSE Append(@, [name |-> name, extent |-> extent]),
              !.hist.registered = Append(@, name)]

\* LoopyContext._gem_to_pym_var
gem_to_pym_var(node, c) ==
    IF c.gem_to_pymbolic[node] # ""
    THEN Outcome(c, PVariable(c.gem_to_pymbolic[node]), "")
    ELSE IF ~HasName(node) THEN Raise(c, "AttributeError")
    ELSE Then(NameGen(c, Nodes[node].name), LAMBDA g :
            Outcome([g.ctx EXCEPT !.gem_to_pymbolic[node] = g.val],
                    PVariable(g.val), ""))

Abs(x) == IF x < 0 THEN -x ELSE x

\* numpy.round(v, 1): to the nearest tenth, a tie to the even tenth
Round1(x) ==
    LET q == x \div OneDecimal
        m == x - q * OneDecimal
    IN  IF 2 * m < OneDecimal THEN q * OneDecimal
        ELSE IF 2 * m > OneDecimal THEN (q + 1) * OneDecimal
        ELSE IF q % 2 = 0 THEN q * OneDecimal ELSE (q + 1) * OneDecimal

\* _expression_scalar without its test that the rounded value is non-zero
expression_scalar_rounds_to_zero(v, epsilon) ==
    IF v.nan THEN PVariable("NAN")
    ELSE LET r == Round1(v.x)
         IN  IF Abs(v.x - r) < epsilon THEN PFloat(r) ELSE PFloat(v.x)

\* _expression_scalar, after its shape assertion
expression_scalar(v, epsilon) ==
    IF v.nan THEN PVariable("NAN")
    ELSE LET r == Round1(v.x)
         IN  IF r # 0 /\ Abs(v.x - r) < epsilon THEN PFloat(r) ELSE PFloat(v.x)

\* the pymbolic primitive an n-ary gem node maps to
NaryOp(kind) ==
    CASE kind = "Sum" -> "Sum"
      [] kind = "Product" -> "Product"
      [] kind = "Division" -> "Quotient"
      [] kind = "Comparison" -> "Comparison"
      [] kind = "LogicalNot" -> "LogicalNot"
      [] kind = "LogicalAnd" -> "LogicalAnd"
      [] kind = "LogicalOr" -> "LogicalOr"
      [] kind = "Conditional" -> "If"
      [] OTHER -> ""
CallOp(kind) ==
    CASE kind = "Power" -> "pow"
      [] kind = "MinValue" -> "min"
      [] kind = "MaxValue" -> "max"
      [] OTHER -> ""

Expanded(c, e) == [c EXCEPT !.hist.expanded[e] = @ + 1]

RECURSIVE expression(_, _, _), ExpressionDispatch(_, _), fetch_from(_, _, _, _),
          pymbolic_variable(_, _), expression_all(_, _, _, _)
RECURSIVE flexibly_rank_(_, _, _, _), flexibly_rank(_, _, _, _)

\* LoopyContext.fetch_multiindex, from entry k on
fetch_from(multiindex, k, c, indices) ==
    IF k > Len(multiindex) THEN Outcome(c, indices, "")
    ELSE LET index == multiindex[k]
         IN  CASE index.t = "Index" ->
                    IF c.active_indices[index.i] = NoBinding
                    THEN Raise(c, "KeyError")
                    ELSE fetch_from(multiindex, k + 1, c,
                            Append(indices, PVariable(c.active_indices[index.i].name)))
               [] index.t = "VariableIndex" ->
                    Try(expression(index.i, c, FALSE), LAMBDA r :
                        fetch_from(multiindex, k + 1, r.ctx, Append(indices, r.val)))
               [] OTHER ->
                    fetch_from(multiindex, k + 1, c, Append(indices, PInt(index.i)))

fetch_multiindex(multiindex, c) == fetch_from(multiindex, 1, c, <<>>)

\* LoopyContext.pymbolic_variable
pymbolic_variable(node, c) ==
    Try(gem_to_pym_var(node, c), LAMBDA pym :
        Try(fetch_multiindex(Nodes[node].indices, pym.ctx), LAMBDA ind :
            IF ind.val # <<>>
            THEN Outcome(ind.ctx, PSubscript(pym.val, ind.val), "")
            ELSE Outcome(ind.ctx, pym.val, "")))

\* the children lowered left to right, stopping at the first exception
expression_all(children, k, c, vals) ==
    IF k > Len(children) THEN Outcome(c, vals, "")
    ELSE Try(expression(children[k], c, FALSE), LAMBDA r :
            expression_all(children, k + 1, r.ctx, Append(vals, r.val)))

\* an Indexed lowering that subscripts the lowered base as it is
expression_indexed_nested(e, c) ==
    Try(fetch_multiindex(Nodes[e].multiindex, c), LAMBDA rank :
        Try(expression(Nodes[e].children[1], rank.ctx, FALSE), LAMBDA var :
            Outcome(var.ctx, PSubscript(var.val, rank.val), "")))

\* _expression_indexed
expression_indexed(e, c) ==
    Try(fetch_multiindex(Nodes[e].multiindex, c), LAMBDA rank :
        Try(expression(Nodes[e].children[1], rank.ctx, FALSE), LAMBDA var :
            IF IsSubscript(var.val)
            THEN Outcome(var.ctx,
                    PSubscript(Aggregate(var.val), IndexTuple(var.val) \o rank.val), "")
            ELSE Outcome(var.ctx, PSubscript(var.val, rank.val), "")))

\* rank_ of one dimension: off, then ctx.active_indices[index] * stride for
\* every pair from k on
flexibly_rank_(idxs, k, c, rank_) ==
    IF k > Len(idxs) THEN Outcome(c, PNary("Sum", rank_), "")
    ELSE IF c.active_indices[idxs[k].index.i] = NoBinding THEN Raise(c, "KeyError")
    ELSE flexibly_rank_(idxs, k + 1, c,
            Append(rank_, PNary("Product",
                <<PVariable(c.active_indices[idxs[k].index.i].name),
                  PInt(idxs[k].stride)>>)))

\* the subscripts of the dimensions from d on
flexibly_rank(dim2idxs, d, c, rank) ==
    IF d > Len(dim2idxs) THEN Outcome(c, rank, "")
    ELSE IF \E k \in DOMAIN dim2idxs[d].idxs : dim2idxs[d].idxs[k].index.t # "Index"
    THEN Raise(c, "AssertionError")
    ELSE Try(flexibly_rank_(dim2idxs[d].idxs, 1, c, <<PInt(dim2idxs[d].off)>>),
             LAMBDA rank_ :
                flexibly_rank(dim2idxs, d + 1, rank_.ctx, Append(rank, rank_.val)))

\* _expression_flexiblyindexed with the strides dropped
expression_flexiblyindexed_unit_stride(e, c) ==
    Try(expression(Nodes[e].children[1], c, FALSE), LAMBDA var :
        Try(flexibly_rank(
                [d \in DOMAIN Nodes[e].dim2idxs |->
                    Dim(Nodes[e].dim2idxs[d].off,
                        [k \in DOMAIN Nodes[e].dim2idxs[d].idxs |->
                            IndexStride(Nodes[e].dim2idxs[d].idxs[k].index, 1)])],
                1, var.ctx, <<>>), LAMBDA rank :
            Outcome(rank.ctx, PSubscript(var.val, rank.val), "")))

\* _expression_flexiblyindexed
expression_flexiblyindexed(e, c) ==
    Try(expression(Nodes[e].children[1], c, FALSE), LAMBDA var :
        Try(flexibly_rank(Nodes[e].dim2idxs, 1, var.ctx, <<>>), LAMBDA rank :
            Outcome(rank.ctx, PSubscript(var.val, rank.val), "")))

\* _expression_mathfunction, the orders 0 and 1 not told from the others
expression_mathfunction_order_n(e, c) ==
    LET name == Nodes[e].name
    IN  IF name \in BesselNames
        THEN IF is_complex(c.scalar_type) THEN Raise(c, "NotImplementedError")
             ELSE Try(expression(Nodes[e].children[1], c, FALSE), LAMBDA nu_ :
                  Try(expression(Nodes[e].children[2], nu_.ctx, FALSE), LAMBDA arg_ :
                      IF name \in {"cyl_bessel_i", "cyl_bessel_k"}
                      THEN Outcome(arg_.ctx,
                              PCall("boost::math::" \o name, <<nu_.val, arg_.val>>), "")
                      ELSE Outcome(arg_.ctx,
                              PCall(LastLetter(name) \o "n", <<nu_.val, arg_.val>>), "")))
        ELSE Try(expression_all(Nodes[e].children, 1, c, <<>>), LAMBDA r :
                Outcome(r.ctx, PCall(IF name = "ln" THEN "log" ELSE name, r.val), ""))

\* _expression_mathfunction
expression_mathfunction(e, c) ==
    LET name == Nodes[e].name
        nu == Nodes[e].children[1]
    IN  IF name \in BesselNames
        THEN IF is_complex(c.scalar_type) THEN Raise(c, "NotImplementedError")
             ELSE Try(expression(nu, c, FALSE), LAMBDA nu_ :
                  Try(expression(Nodes[e].children[2], nu_.ctx, FALSE), LAMBDA arg_ :
                      IF name \in {"cyl_bessel_i", "cyl_bessel_k"}
                      THEN Outcome(arg_.ctx,
                              PCall("boost::math::" \o name, <<nu_.val, arg_.val>>), "")
                      ELSE IF IsZero(nu)
                      THEN Outcome(arg_.ctx,
                              PCall(LastLetter(name) \o "0", <<arg_.val>>), "")
                      ELSE IF IsOne(nu)
                      THEN Outcome(arg_.ctx,
                              PCall(LastLetter(name) \o "1", <<arg_.val>>), "")
                      ELSE Outcome(arg_.ctx,
                              PCall(LastLetter(name) \o "n", <<nu_.val, arg_.val>>), "")))
        ELSE Try(expression_all(Nodes[e].children, 1, c, <<>>), LAMBDA r :
                Outcome(r.ctx, PCall(IF name = "ln" THEN "log" ELSE name, r.val), ""))

\* a Failure node lowered to a value instead of raising
expression_failure_swallowed(e, c) == Outcome(c, PVariable("failure"), "")

\* _expression_failure
expression_failure(e, c) == Raise(c, FailureException(e))

\* _expression: the single dispatch on the node's class
ExpressionDispatch(e, c) ==
    LET kind == Nodes[e].kind
    IN  CASE kind = "Failure" -> expression_failure(e, c)
          [] NaryOp(kind) # "" ->
                Try(expression_all(Nodes[e].children, 1, c, <<>>), LAMBDA r :
                    Outcome(r.ctx, PNary(NaryOp(kind), r.val), ""))
          [] CallOp(kind) # "" ->
                Try(expression_all(Nodes[e].children, 1, c, <<>>), LAMBDA r :
                    Outcome(r.ctx, PCall(CallOp(kind), r.val), ""))
          [] kind = "Constant" ->
                IF Nodes[e].shape # <<>> THEN Raise(c, "AssertionError")
                ELSE Outcome(c, expression_scalar(Nodes[e].value, c.epsilon), "")
          [] kind = "Variable" -> pymbolic_variable(e, c)
          [] kind = "Indexed" -> expression_indexed(e, c)
          [] kind = "FlexiblyIndexed" -> expression_flexiblyindexed(e, c)
          [] kind = "MathFunction" -> expression_mathfunction(e, c)
          [] OTHER -> Raise(c, "AssertionError")

\* expression() without its lookup of the memoized name
expression_always_expands(expr, c, top) == ExpressionDispatch(expr, Expanded(c, expr))

\* expression(expr, ctx, top): a node that has a name is referenced by it
expression(expr, c, top) ==
    IF ~top /\ c.gem_to_pymbolic[expr] # ""
    THEN pymbolic_variable(expr, c)
    ELSE ExpressionDispatch(expr, Expanded(c, expr))

-----------------------------------------------------------------------------
(* Statement lowering *)

Instruction(type, lhs, rhs, within_inames) ==
    [type |-> type, lhs |-> lhs, rhs |-> rhs,
     within_inames |-> within_inames, priority |-> 0]

\* lhs + rhs on pymbolic expressions
PAdd(lhs, rhs) == PNary("Sum", <<lhs, rhs>>)

\* LoopyContext.active_inames
active_inames(c) ==
    {c.active_indices[k].name : k \in {j \in Indices : c.active_indices[j] # NoBinding}}

\* active_indices(mapping, ctx) up to its yield: ctx.active_indices.update(mapping).
\* keys[k] is bound to the loop variable names[k]; a repeated key keeps the last.
\* `act` numbers the activation (observation only).
Activate(c, keys, names, act) ==
    [c EXCEPT !.active_indices =
                  [j \in Indices |->
                      IF \E k \in DOMAIN keys : keys[k] = j
                      THEN LET k == CHOOSE k \in DOMAIN keys :
                                      keys[k] = j /\ \A m \in DOMAIN keys : keys[m] = j => m <= k
                           IN  [name |-> names[k], act |-> act]
                      ELSE @[j]],
              !.hist.acts = act]

\* the distinct keys of dict(zip(keys, ...)), in insertion order
RECURSIVE DictKeys(_, _, _)
DictKeys(keys, k, acc) ==
    IF k > Len(keys) THEN acc
    ELSE DictKeys(keys, k + 1,
            IF \E m \in DOMAIN acc : acc[m] = keys[k] THEN acc ELSE Append(acc, keys[k]))

\* active_indices(mapping, ctx) after its yield:
\* for key in mapping: ctx.active_indices.pop(key)
RECURSIVE PopKeys(_, _, _)
PopKeys(c, keys, k) ==
    IF k > Len(keys) THEN Outcome(c, PNone, "")
    ELSE IF c.active_indices[keys[k]] = NoBinding THEN Raise(c, "KeyError")
    ELSE PopKeys([c EXCEPT !.active_indices[keys[k]] = NoBinding], keys, k + 1)

Exited(c, act) == [c EXCEPT !.hist.exited = @ \cup {act}]

\* the exit of the `with active_indices(...)` block numbered act, its body
\* having returned `body`: a body that raised skips the code after the yield
Deactivate(body, keys, act) ==
    IF body.exc # "" THEN Outcome(Exited(body.ctx, act), body.val, body.exc)
    ELSE Then(PopKeys(body.ctx, keys, 1), LAMBDA popped :
            Outcome(Exited(popped.ctx, act), body.val, popped.exc))

\* LoopyContext.gem_to_pym_multiindex, from entry k on
RECURSIVE gem_to_pym_from(_, _, _, _)
gem_to_pym_from(multiindex, k, c, names) ==
    IF k > Len(multiindex) THEN Outcome(c, names, "")
    ELSE LET index == IndexTable[multiindex[k].i]
         IN  IF index.extent = 0 THEN Raise(c, "AssertionError")
             ELSE IF index.name = ""
             THEN Then(NameGen(c, index.index_name), LAMBDA g :
                      gem_to_pym_from(multiindex, k + 1,
                          SetExtent(g.ctx, g.val, index.extent), Append(names, g.val)))
             ELSE gem_to_pym_from(multiindex, k + 1,
                      SetExtent(c, index.name, index.extent), Append(names, index.name))

gem_to_pym_multiindex(multiindex, c) == gem_to_pym_from(multiindex, 1, c, <<>>)

\* LoopyContext.pymbolic_multiindex, from entry k on: index_names[extent] is
\* the defaultdict's default, "i"
RECURSIVE pymbolic_multiindex_from(_, _, _, _)
pymbolic_multiindex_from(shape, k, c, names) ==
    IF k > Len(shape) THEN Outcome(c, names, "")
    ELSE Then(NameGen(c, "i"), LAMBDA g :
            pymbolic_multiindex_from(shape, k + 1,
                SetExtent(g.ctx, g.val, shape[k]), Append(names, g.val)))

pymbolic_multiindex(shape, c) == pymbolic_multiindex_from(shape, 1, c, <<>>)

PVariables(names) == [k \in DOMAIN names |-> PVariable(names[k])]

\* LoopyContext.pymbolic_variable_and_destruct: val = <<aggregate, index tuple>>
pymbolic_variable_and_destruct(node, c) ==
    Try(pymbolic_variable(node, c), LAMBDA pym :
        IF IsSubscript(pym.val)
        THEN Outcome(pym.ctx, <<Aggregate(pym.val), IndexTuple(pym.val)>>, "")
        ELSE Outcome(pym.ctx, <<pym.val, <<>>>>, ""))

\* statement_return that ignores ctx.return_increments
statement_return_always_increments(leaf, c) ==
    Try(expression(leaf.variable, c, FALSE), LAMBDA lhs :
        Try(expression(leaf.expression, lhs.ctx, FALSE), LAMBDA rhs :
            Outcome(rhs.ctx,
                <<Instruction("Assignment", lhs.val, PAdd(lhs.val, rhs.val),
                              active_inames(rhs.ctx))>>, "")))

\* statement_return
statement_return(leaf, c) ==
    Try(expression(leaf.variable, c, FALSE), LAMBDA lhs :
        Try(expression(leaf.expression, lhs.ctx, FALSE), LAMBDA rhs :
            Outcome(rhs.ctx,
                <<Instruction("Assignment", lhs.val,
                    IF c.return_increments THEN PAdd(lhs.val, rhs.val) ELSE rhs.val,
                    active_inames(rhs.ctx))>>, "")))

\* statement_accumulate with the flag of statement_return
statement_accumulate_by_flag(leaf, c) ==
    Try(expression(leaf.expression, c, FALSE), LAMBDA lhs :
        Try(expression(Nodes[leaf.expression].children[1], lhs.ctx, FALSE), LAMBDA rhs :
            Outcome(rhs.ctx,
                <<Instruction("Assignment", lhs.val,
                    IF c.return_increments THEN PAdd(lhs.val, rhs.val) ELSE rhs.val,
                    active_inames(rhs.ctx))>>, "")))

\* statement_accumulate
statement_accumulate(leaf, c) ==
    Try(expression(leaf.expression, c, FALSE), LAMBDA lhs :
        Try(expression(Nodes[leaf.expression].children[1], lhs.ctx, FALSE), LAMBDA rhs :
            Outcome(rhs.ctx,
                <<Instruction("Assignment", lhs.val, PAdd(lhs.val, rhs.val),
                              active_inames(rhs.ctx))>>, "")))

\* statement_returnaccumulate
statement_returnaccumulate(leaf, c) ==
    Try(expression(leaf.variable, c, FALSE), LAMBDA lhs :
        Try(expression(Nodes[leaf.expression].children[1], lhs.ctx, FALSE), LAMBDA rhs :
            Outcome(rhs.ctx,
                <<Instruction("Assignment", lhs.val, PAdd(lhs.val, rhs.val),
                              active_inames(rhs.ctx))>>, "")))

\* the multi-index's gem indices
IndexKeys(multiindex) == [k \in DOMAIN multiindex |-> multiindex[k].i]

\* statement_evaluate, expr a gem.ComponentTensor
evaluate_componenttensor(expr, c) ==
    Try(gem_to_pym_multiindex(Nodes[expr].multiindex, c), LAMBDA idx :
        Try(pymbolic_variable_and_destruct(expr, idx.ctx), LAMBDA vs :
            LET lhs == PSubscript(vs.val[1], PVariables(idx.val) \o vs.val[2])
                act == vs.ctx.hist.acts + 1
                keys == IndexKeys(Nodes[expr].multiindex)
            IN  Deactivate(
                    Try(expression(Nodes[expr].children[1],
                                   Activate(vs.ctx, keys, idx.val, act), FALSE),
                        LAMBDA body :
                            Outcome(body.ctx,
                                <<Instruction("Assignment", lhs, body.val,
                                              active_inames(body.ctx))>>, "")),
                    DictKeys(keys, 1, <<>>), act)))

\* the sub-array reads of Action and Solve: for child in expr.children, from k on
RECURSIVE call_reads(_, _, _, _)
call_reads(children, k, c, reads) ==
    IF k > Len(children) THEN Outcome(c, reads, "")
    ELSE Then(pymbolic_multiindex(Nodes[children[k]].shape, c), LAMBDA idx_reads :
            Try(pymbolic_variable(children[k], idx_reads.ctx), LAMBDA var_reads :
                call_reads(children, k + 1, var_reads.ctx,
                    Append(reads, PSubArrayRef(PVariables(idx_reads.val),
                        PSubscript(var_reads.val, PVariables(idx_reads.val)))))))

NoKernel == [name |-> "", n |-> 0]

\* a builder that keeps a kernel that is already pending
loopy_matfree_solve_keeps_pending(c, shape) ==
    [c EXCEPT !.matfree_solve_knl =
                  IF @ # NoKernel THEN @
                  ELSE [name |-> "matfree_cg_kernel", n |-> shape[1]],
              !.hist.solve_lowered = TRUE]

\* loopy_matfree_solve: builds the CG kernel for n = shape[0] and stores it
\* in the global
loopy_matfree_solve(c, shape) ==
    [c EXCEPT !.matfree_solve_knl = [name |-> "matfree_cg_kernel", n |-> shape[1]],
              !.hist.solve_lowered = TRUE]

\* statement_evaluate, expr a gem.Inverse, gem.Action or gem.Solve
evaluate_call(expr, c) ==
    LET node == Nodes[expr]
    IN  Then(pymbolic_multiindex(node.shape, c), LAMBDA idx :
        Try(pymbolic_variable(expr, idx.ctx), LAMBDA var :
        Try(call_reads(IF node.kind = "Inverse" THEN <<node.children[1]>>
                       ELSE node.children, 1, var.ctx, <<>>), LAMBDA reads :
        Then(IF node.kind = "Solve" /\ node.matfree
             THEN loopy_matfree_solve(reads.ctx, node.shape) ELSE reads.ctx,
             LAMBDA built :
                Outcome(built,
                    <<Instruction("CallInstruction",
                        PSubArrayRef(PVariables(idx.val),
                                     PSubscript(var.val, PVariables(idx.val))),
                        PCall(CASE node.kind = "Inverse" -> "inverse"
                                [] node.kind = "Action" -> "action"
                                [] node.matfree -> built.matfree_solve_knl.name
                                [] OTHER -> "solve",
                              reads.val),
                        active_inames(built))>>, "")))))

\* statement_evaluate, expr a gem.ListTensor (a one-dimensional array): from
\* entry k on
RECURSIVE evaluate_listtensor_from(_, _, _, _, _)
evaluate_listtensor_from(expr, vs, k, c, ops) ==
    IF k > Len(Nodes[expr].children) THEN Outcome(c, ops, "")
    ELSE Try(expression(Nodes[expr].children[k], c, FALSE), LAMBDA value :
            evaluate_listtensor_from(expr, vs, k + 1, value.ctx,
                Append(ops, Instruction("Assignment",
                    PSubscript(vs[1], vs[2] \o <<PInt(k - 1)>>), value.val,
                    active_inames(value.ctx)))))

Evaluated(c, expr) == [c EXCEPT !.hist.evaluated[expr] = @ + 1]

\* statement_evaluate
statement_evaluate(leaf, c) ==
    LET expr == leaf.expression
        kind == Nodes[expr].kind
    IN  CASE kind = "ListTensor" ->
                Try(pymbolic_variable_and_destruct(expr, c), LAMBDA vs :
                    evaluate_listtensor_from(expr, vs.val, 1, vs.ctx, <<>>))
          [] kind = "Constant" -> Outcome(c, <<>>, "")
          [] kind = "ComponentTensor" -> evaluate_componenttensor(expr, c)
          [] kind \in {"Inverse", "Action", "Solve"} -> evaluate_call(expr, c)
          [] OTHER ->
                Try(pymbolic_variable(expr, c), LAMBDA lhs :
                    Try(expression(expr, Evaluated(lhs.ctx, expr), TRUE), LAMBDA rhs :
                        Outcome(rhs.ctx,
                            <<Instruction("Assignment", lhs.val, rhs.val,
                                          active_inames(rhs.ctx))>>, "")))

-----------------------------------------------------------------------------
(* generate(): assembly of the kernel *)

\* the integers the model evaluates a domain on
DomainUniverse == -1 .. 4

\* the domain with its upper bound included
DomainClosed(idx, extent) ==
    [inames |-> <<idx>>,
     points |-> {<<x>> : x \in {y \in DomainUniverse : 0 <= y /\ y <= 0 + extent}}]

\* the ISL set { [idx] : 0 <= idx and idx < 0 + extent }
Domain(idx, extent) ==
    [inames |-> <<idx>>,
     points |-> {<<x>> : x \in {y \in DomainUniverse : 0 <= y /\ y < 0 + extent}}]

\* isl.BasicSet("[] -> {[]}")
EmptyTupleDomain == [inames |-> <<>>, points |-> {<<>>}]

\* create_domains
create_domains(indices) ==
    LET domains == [k \in DOMAIN indices |-> Domain(indices[k].name, indices[k].extent)]
    IN  IF domains = <<>> THEN <<EmptyTupleDomain>> ELSE domains

\* priorities counted from 1 instead of 0
prioritize_from_one(insns) ==
    [k \in DOMAIN insns |-> [insns[k] EXCEPT !.priority = Len(insns) - k]]

\* insn.copy(priority=len(knl.instructions) - i) for i, insn in enumerate(...)
prioritize(insns) ==
    [k \in DOMAIN insns |-> [insns[k] EXCEPT !.priority = Len(insns) - (k - 1)]]

\* expression() not called: no value, no exception
NoValue == [val |-> PNone, exc |-> ""]

\* the CG kernel not run
NoRun == [n |-> 0]

\* a node of the Impero tree: a Block has children, a For an index and its
\* body as only child, a leaf its variable and expression
TNode(kind, index, variable, expr, children) ==
    [kind |-> kind, index |-> index, variable |-> variable,
     expression |-> expr, children |-> children]

\* no tree given yet
NoTree == TNode("none", 0, 0, 0, <<>>)

NoResult == [kind |-> "none", domains |-> <<>>, instructions |-> <<>>,
             callee |-> NoKernel]

-----------------------------------------------------------------------------
(* The state machine *)

\* ctx.active_indices as index -> loop variable ("" = unbound)
ScopeMap(bindings) == [j \in Indices |-> bindings[j].name]

\* no statement lowered yet; `before` is ctx.active_indices as it was when
\* statement() was called on the subtree that has just been lowered
NoStmt ==
    [kind |-> "none", variable |-> 0, expression |-> 0, index |-> 0, n0 |-> 0,
     before |-> [j \in Indices |-> ""]]

NewHist ==
    [nodes |-> 0, acts |-> 0, exited |-> {}, solve_lowered |-> FALSE,
     expanded |-> [n \in NodeIds |-> 0], evaluated |-> [n \in NodeIds |-> 0],
     registered |-> <<>>]

\* the LoopyContext (and the global it reaches) as the operators take it
Ctx ==
    [active_indices |-> active_indices, index_extent |-> index_extent,
     gem_to_pymbolic |-> gem_to_pymbolic, name_gen |-> name_gen,
     epsilon |-> Resolution(scalar_type), scalar_type |-> scalar_type,
     return_increments |-> return_increments,
     matfree_solve_knl |-> matfree_solve_knl, hist |-> hist]

\* generate(), lines 200-216: a fresh context, the temporaries named t<i>;
\* knl is the module global as the call finds it
NewContext(increments, st, knl) ==
    [active_indices |-> [k \in Indices |-> NoBinding],
     index_extent |-> <<>>,
     gem_to_pymbolic |->
          [n \in NodeIds |->
              IF IsTemporary(n)
              THEN "t" \o ToString((CHOOSE i \in DOMAIN Temporaries : Temporaries[i] = n) - 1)
              ELSE ""],
     name_gen |-> {},
     epsilon |-> Resolution(st), scalar_type |-> st,
     return_increments |-> increments,
     matfree_solve_knl |-> knl, hist |-> NewHist]

Counted(c) == [c EXCEPT !.hist.nodes = @ + 1]

CommitCtx(c) ==
    /\ active_indices' = c.active_indices
    /\ index_extent' = c.index_extent
    /\ gem_to_pymbolic' = c.gem_to_pymbolic
    /\ name_gen' = c.name_gen
    /\ matfree_solve_knl' = c.matfree_solve_knl

Commit(c) ==
    /\ CommitCtx(c)
    /\ UNCHANGED <<return_increments, scalar_type, result, sidevars>>

OpenActs == {scopes[k].act : k \in DOMAIN scopes}

\* an exception leaves statement() through every open `with` block and then
\* generate(): the context stays as the raising code left it
Abort(c, e) ==
    /\ Commit(c)
    /\ hist' = [c.hist EXCEPT !.exited = @ \cup OpenActs]
    /\ phase' = "aborted"
    /\ exc' = e
    /\ scopes' = <<>>
    /\ UNCHANGED instructions

\* generate(), lines 200-216: a fresh context, the temporaries named t<i>
Generate(increments, st) ==
    /\ phase \in {"idle", "returned", "aborted"}
    /\ phase' = "lowering"
    /\ exc' = ""
    /\ return_increments' = increments
    /\ scalar_type' = st
    /\ CommitCtx(NewContext(increments, st, matfree_solve_knl))
    /\ instructions' = <<>>
    /\ scopes' = <<>>
    /\ result' = NoResult
    /\ hist' = NewHist
    /\ last' = NoStmt
    /\ UNCHANGED sidevars

\* statement_for, up to the entry of its `with` block; val = the activation
statement_for_enter(k, c) ==
    LET extent == IndexTable[k].extent
    IN  IF extent = 0 THEN Raise(c, "AssertionError")
        ELSE Then(NameGen(c, IndexTable[k].index_name), LAMBDA idx :
                Outcome(Activate(SetExtent(idx.ctx, idx.val, extent),
                                 <<k>>, <<idx.val>>, c.hist.acts + 1),
                        c.hist.acts + 1, ""))

StatementFor(k) ==
    /\ phase = "lowering"
    /\ hist.nodes < MaxNodes
    /\ last' = [NoStmt EXCEPT !.kind = "For", !.index = k, !.n0 = Len(instructions)]
    /\ \E o \in {statement_for_enter(k, Counted(Ctx))} :
          IF o.exc # "" THEN Abort(o.ctx, o.exc)
          ELSE /\ Commit(o.ctx)
               /\ hist' = o.ctx.hist
               /\ scopes' = Append(scopes,
                      [keys |-> <<k>>, act |-> o.val,
                       names |-> <<o.ctx.active_indices[k].name>>,
                       before |-> ScopeMap(active_indices)])
               /\ UNCHANGED <<phase, exc, instructions>>

\* statement_for, once its body is lowered: the code after active_indices' yield
ForExit ==
    /\ phase = "lowering"
    /\ scopes # <<>>
    /\ last' = [NoStmt EXCEPT !.kind = "ForExit", !.n0 = Len(instructions),
                              !.before = scopes[Len(scopes)].before]
    /\ \E closed \in {Deactivate(Outcome(Ctx, <<>>, ""), scopes[Len(scopes)].keys,
                                  scopes[Len(scopes)].act)} :
          IF closed.exc # "" THEN Abort(closed.ctx, closed.exc)
          ELSE /\ Commit(closed.ctx)
               /\ hist' = closed.ctx.hist
               /\ scopes' = SubSeq(scopes, 1, Len(scopes) - 1)
               /\ UNCHANGED <<phase, exc, instructions>>

\* a leaf statement lowered by `lower`: its instructions are appended, or the
\* call aborts with the exception it raised
Lowered(leaf, o) ==
    /\ last' = [NoStmt EXCEPT !.kind = leaf.kind, !.variable = leaf.variable,
                              !.expression = leaf.expression,
                              !.n0 = Len(instructions),
                              !.before = ScopeMap(active_indices)]
    /\ IF o.exc # "" THEN Abort(o.ctx, o.exc)
       ELSE /\ Commit(o.ctx)
            /\ hist' = o.ctx.hist
            /\ instructions' = instructions \o o.val
            /\ UNCHANGED <<phase, exc, scopes>>

StatementReturn(leaf) ==
    /\ phase = "lowering"
    /\ hist.nodes < MaxNodes
    /\ leaf.kind = "Return"
    /\ \E o \in {statement_return(leaf, Counted(Ctx))} : Lowered(leaf, o)

StatementEvaluate(leaf) ==
    /\ phase = "lowering"
    /\ hist.nodes < MaxNodes
    /\ leaf.kind = "Evaluate"
    /\ \E o \in {statement_evaluate(leaf, Counted(Ctx))} : Lowered(leaf, o)

StatementAccumulate(leaf) ==
    /\ phase = "lowering"
    /\ hist.nodes < MaxNodes
    /\ leaf.kind = "Accumulate"
    /\ \E o \in {statement_accumulate(leaf, Counted(Ctx))} : Lowered(leaf, o)

StatementReturnAccumulate(leaf) ==
    /\ phase = "lowering"
    /\ hist.nodes < MaxNodes
    /\ leaf.kind = "ReturnAccumulate"
    /\ \E o \in {statement_returnaccumulate(leaf, Counted(Ctx))} : Lowered(leaf, o)

\* generate(), lines 221-247, once the whole tree is lowered
Finish ==
    /\ phase = "lowering"
    /\ scopes = <<>>
    /\ LET knl == [kind |-> "kernel",
                   domains |-> create_domains(index_extent),
                   instructions |-> prioritize(instructions),
                   callee |-> NoKernel]
       IN  IF matfree_solve_knl # NoKernel
           THEN /\ result' = [knl EXCEPT !.kind = "program",
                                         !.callee = matfree_solve_knl]
                /\ matfree_solve_knl' = NoKernel
           ELSE /\ result' = knl
                /\ UNCHANGED matfree_solve_knl
    /\ phase' = "returned"
    /\ last' = [NoStmt EXCEPT !.kind = "Finish", !.n0 = Len(instructions)]
    /\ UNCHANGED <<exc, ctxvars, hist, sidevars>>

\* one call of _expression_scalar on a constant the caller chose
ExpressionScalar ==
    /\ sout = PNone
    /\ sout' = expression_scalar(sv, seps)
    /\ UNCHANGED <<mainvars, sv, seps, exprvars, dtypevars, cgvars, treevars>>

InitContext ==
    /\ matfree_solve_knl = NoKernel
    /\ phase = "idle"
    /\ exc = ""
    /\ return_increments = TRUE
    /\ scalar_type = "float64"
    /\ active_indices = [k \in Indices |-> NoBinding]
    /\ index_extent = <<>>
    /\ gem_to_pymbolic = [n \in NodeIds |-> ""]
    /\ name_gen = {}
    /\ instructions = <<>>
    /\ scopes = <<>>
    /\ result = NoResult
    /\ hist = NewHist
    /\ last = NoStmt

\* no call of _expression_scalar, expression, assign_dtypes or the CG kernel
ScalarIdle == sv = Value(0) /\ seps = 1 /\ sout = PNone
ExprIdle == eroot = 0 /\ eout = NoValue
DtypeIdle == dscalar = "float64" /\ dnodes = <<>> /\ dcache = <<>>
CGIdle == cg = NoRun
TreeIdle == tree = NoTree

Init ==
    /\ InitContext
    /\ ScalarIdle /\ ExprIdle /\ DtypeIdle /\ CGIdle /\ TreeIdle

Next ==
    \/ \E increments \in BOOLEAN, st \in ScalarTypes : Generate(increments, st)
    \/ \E k \in Indices : StatementFor(k)
    \/ ForExit
    \/ \E leaf \in Leaves : StatementReturn(leaf)
    \/ \E leaf \in Leaves : StatementEvaluate(leaf)
    \/ \E leaf \in Leaves : StatementAccumulate(leaf)
    \/ \E leaf \in Leaves : StatementReturnAccumulate(leaf)
    \/ Finish

Spec == Init /\ [][Next]_vars

\* the scalar constants _expression_scalar is tried on
ScalarOffsets == {0, 1, -1, 99, 100, -100, 99999, 100000, -99999,
                  4 * 10 ^ 6, 5 * 10 ^ 6, -5 * 10 ^ 6}
ScalarValues ==
    {NaN} \cup {Value(t * OneDecimal + d) : t \in -MaxTenths .. MaxTenths, d \in ScalarOffsets}
\* numpy.finfo(...).resolution in units: float64 (see Resolution), float32, float16
Resolutions == {1, 100, 100000}

InitScalar ==
    /\ InitContext
    /\ sv \in ScalarValues /\ seps \in Resolutions /\ sout = PNone
    /\ ExprIdle /\ DtypeIdle /\ CGIdle /\ TreeIdle

NextScalar == ExpressionScalar

SpecScalar == InitScalar /\ [][NextScalar]_vars

\* statement_for entered for the indices of fors from k on, one in the other
RECURSIVE EnterScopes(_, _, _)
EnterScopes(fors, k, c) ==
    IF k > Len(fors) THEN Outcome(c, PNone, "")
    ELSE Try(statement_for_enter(fors[k], c), LAMBDA o : EnterScopes(fors, k + 1, o.ctx))

\* the For nests an expression is lowered in, and the scalar types
ExprScopes == {<<>>, <<1>>, <<2>>, <<1, 2>>, <<2, 1>>, <<1, 1>>, <<1, 1, 2>>}
ExprScalarTypes == {"float64", "complex128"}
\* the expressions lowered on their own
ExprRoots ==
    {4, 6, 11, 13, 23, 24, 25, 26, 33, 34, 35, 36, 37, 38, 39, 40, 41, 42, 44, 45, 46, 47}

\* one call expression(n, ctx) in the body of a For nest
LowerExpression(n) ==
    /\ phase = "lowering"
    /\ eroot = 0
    /\ eroot' = n
    /\ \E o \in {expression(n, Ctx, FALSE)} :
          /\ eout' = [val |-> o.val, exc |-> o.exc]
          /\ CommitCtx(o.ctx)
          /\ hist' = o.ctx.hist
    /\ UNCHANGED <<phase, exc, return_increments, scalar_type, instructions, scopes,
                   result, last, scalarvars, dtypevars, cgvars, treevars>>

InitExpr ==
    /\ \E st \in ExprScalarTypes, fors \in ExprScopes :
          \E o \in {EnterScopes(fors, 1, NewContext(FALSE, st, NoKernel))} :
              /\ o.exc = ""
              /\ scalar_type = st
              /\ active_indices = o.ctx.active_indices
              /\ index_extent = o.ctx.index_extent
              /\ gem_to_pymbolic = o.ctx.gem_to_pymbolic
              /\ name_gen = o.ctx.name_gen
              /\ hist = o.ctx.hist
              /\ scopes =
                    [k \in DOMAIN fors |->
                        [keys |-> <<fors[k]>>, act |-> k,
                         names |-> <<o.ctx.hist.registered[k]>>,
                         before |-> ScopeMap(EnterScopes(SubSeq(fors, 1, k - 1), 1,
                                        NewContext(FALSE, st, NoKernel)).ctx.active_indices)]]
    /\ matfree_solve_knl = NoKernel
    /\ phase = "lowering"
    /\ exc = ""
    /\ return_increments = FALSE
    /\ instructions = <<>>
    /\ result = NoResult
    /\ last = NoStmt
    /\ ScalarIdle /\ DtypeIdle /\ CGIdle /\ TreeIdle
    /\ eroot = 0 /\ eout = NoValue

NextExpr == \E n \in ExprRoots : LowerExpression(n)

SpecExpr == InitExpr /\ [][NextExpr]_vars

-----------------------------------------------------------------------------
(* statement(tree, ctx) on a whole Impero tree *)

RECURSIVE statement(_, _), statement_block_from(_, _, _, _)

\* a Block whose later children come first in the list
statement_block_prepending(children, k, c, ops) ==
    IF k > Len(children) THEN Outcome(c, ops, "")
    ELSE Try(statement(children[k], c), LAMBDA o :
            statement_block_from(children, k + 1, o.ctx, o.val \o ops))

\* statement_block: chain(*(statement(child, ctx) for child in tree.children)),
\* from child k on
statement_block_from(children, k, c, ops) ==
    IF k > Len(children) THEN Outcome(c, ops, "")
    ELSE Try(statement(children[k], c), LAMBDA o :
            statement_block_from(children, k + 1, o.ctx, ops \o o.val))

\* statement_for
statement_for(t, c) ==
    Try(statement_for_enter(t.index, c), LAMBDA entered :
        Deactivate(statement(t.children[1], entered.ctx), <<t.index>>, entered.val))

\* statement: the single dispatch on the class of the tree
statement(t, c) ==
    CASE t.kind = "Block" -> statement_block_from(t.children, 1, c, <<>>)
      [] t.kind = "For" -> statement_for(t, c)
      [] t.kind = "Accumulate" -> statement_accumulate(t, c)
      [] t.kind = "Return" -> statement_return(t, c)
      [] t.kind = "ReturnAccumulate" -> statement_returnaccumulate(t, c)
      [] t.kind = "Evaluate" -> statement_evaluate(t, c)
      [] OTHER -> Raise(c, "AssertionError")

\* the leaves: Return(y[i], A[i] + B[i]), Evaluate of the temporary t0[i],
\* of a matrix-free Solve and of a Constant, and a node of a class (Noop)
\* for which no statement is registered
TreeLeaves ==
    {TNode("Return", 0, 7, 6, <<>>), TNode("Evaluate", 0, 0, 10, <<>>),
     TNode("Evaluate", 0, 0, 16, <<>>), TNode("Evaluate", 0, 0, 12, <<>>),
     TNode("Noop", 0, 0, 6, <<>>)}
TBlock(children) == TNode("Block", 0, 0, 0, children)
TFor(index, body) == TNode("For", index, 0, 0, <<body>>)
\* a leaf or a Block of leaves; a For over one of these; and a Block of a
\* For and a leaf, in either order
TreeBodies ==
    TreeLeaves \cup {TBlock(children) :
                        children \in UNION {[1 .. n -> TreeLeaves] : n \in 0 .. MaxChildren}}
TreeLoops == {TFor(1, body) : body \in TreeBodies}
Trees ==
    TreeBodies \cup TreeLoops
        \cup {TBlock(<<loop, leaf>>) : loop \in TreeLoops, leaf \in TreeLeaves}
        \cup {TBlock(<<leaf, loop>>) : loop \in TreeLoops, leaf \in TreeLeaves}

\* generate(), line 219: instructions = statement(impero_c.tree, ctx)
StatementTree(t) ==
    /\ phase = "lowering"
    /\ tree = NoTree
    /\ tree' = t
    /\ \E o \in {statement(t, Ctx)} :
          /\ CommitCtx(o.ctx)
          /\ hist' = o.ctx.hist
          /\ IF o.exc # ""
             THEN /\ phase' = "aborted"
                  /\ exc' = o.exc
                  /\ UNCHANGED instructions
             ELSE /\ instructions' = o.val
                  /\ UNCHANGED <<phase, exc>>
    /\ UNCHANGED <<return_increments, scalar_type, scopes, result, last,
                   scalarvars, exprvars, dtypevars, cgvars>>

InitTree ==
    /\ \E increments \in BOOLEAN :
          \E c \in {NewContext(increments, "float64", NoKernel)} :
              /\ return_increments = increments
              /\ scalar_type = c.scalar_type
              /\ active_indices = c.active_indices
              /\ index_extent = c.index_extent
              /\ gem_to_pymbolic = c.gem_to_pymbolic
              /\ name_gen = c.name_gen
              /\ hist = c.hist
    /\ matfree_solve_knl = NoKernel
    /\ phase = "lowering"
    /\ exc = ""
    /\ instructions = <<>>
    /\ scopes = <<>>
    /\ result = NoResult
    /\ last = NoStmt
    /\ ScalarIdle /\ ExprIdle /\ DtypeIdle /\ CGIdle
    /\ tree = NoTree

NextTree == \E t \in Trees : StatementTree(t)

SpecTree == InitTree /\ [][NextTree]_vars

-----------------------------------------------------------------------------
(* assign_dtypes: the numpy type of every expression node *)

\* numpy dtypes, in the order numpy.find_common_type tries them
TestTypes == <<"int8", "float32", "float64", "complex64", "complex128">>
DTypes == {TestTypes[k] : k \in DOMAIN TestTypes}
IsComplexType(t) == t \in {"complex64", "complex128"}

\* mapper.real_type = numpy.finfo(scalar_type).dtype
RealType(st) == IF st \in {"float32", "complex64"} THEN "float32" ELSE "float64"

\* numpy.can_cast(from, to): the safe casts among TestTypes
CanCast(from, to) ==
    CASE from = "int8" -> TRUE
      [] from = "float32" -> to # "int8"
      [] from = "float64" -> to \in {"float64", "complex128"}
      [] from = "complex64" -> to \in {"complex64", "complex128"}
      [] OTHER -> to = "complex128"

\* the widest of the candidates in the order of TestTypes, casts not looked at
PromoteByRank(candidates) ==
    TestTypes[CHOOSE k \in DOMAIN TestTypes :
                  /\ TestTypes[k] \in candidates
                  /\ \A m \in DOMAIN TestTypes : TestTypes[m] \in candidates => m <= k]

\* numpy.find_common_type(candidates, []): the first of TestTypes every
\* candidate can be cast to
Promote(candidates) ==
    TestTypes[CHOOSE k \in DOMAIN TestTypes :
                  /\ \A t \in candidates : CanCast(t, TestTypes[k])
                  /\ \A m \in 1 .. k - 1 :
                        \E t \in candidates : ~CanCast(t, TestTypes[m])]

DNode(kind, name, children, dtype) ==
    [kind |-> kind, name |-> name, children |-> children, dtype |-> dtype]

\* set.union(*map(self, children)), the mapper being memoized
UnionOf(children, cache) == UNION {cache[children[k]] : k \in DOMAIN children}

\* the operands a node's rule takes the union over (<<>> for a rule that
\* does not look at the operands)
UnionOperands(node) ==
    CASE node.kind \in {"Zero", "Identity", "Delta", "Literal", "Variable", "Failure",
                        "Power", "MinValue", "MaxValue", "Comparison", "LogicalNot",
                        "LogicalAnd", "LogicalOr"} -> <<>>
      [] node.kind = "MathFunction" /\ node.name \in {"abs", "real", "imag", "sqrt"} -> <<>>
      [] node.kind = "Conditional" -> SubSeq(node.children, 2, Len(node.children))
      [] OTHER -> node.children

\* set.union(*map(self, ())) has no argument: TypeError
NoCandidates(node) ==
    /\ node.kind \notin {"Zero", "Identity", "Delta", "Literal", "Variable", "Failure",
                         "Power", "MinValue", "MaxValue", "Comparison", "LogicalNot",
                         "LogicalAnd", "LogicalOr"}
    /\ ~(node.kind = "MathFunction" /\ node.name \in {"abs", "real", "imag", "sqrt"})
    /\ UnionOperands(node) = <<>>

\* a dispatch where Conditional has no rule of its own
assign_dtype_conditional_by_default(node, cache, st) ==
    CASE node.kind \in {"Zero", "Identity", "Delta"} -> {RealType(st)}
      [] node.kind = "Literal" -> {node.dtype}
      [] node.kind \in {"Variable", "Failure"} -> {st}
      [] node.kind = "Power" -> {st}
      [] node.kind = "MathFunction" ->
            IF node.name \in {"abs", "real", "imag"} THEN {RealType(st)}
            ELSE IF node.name = "sqrt" THEN {st}
            ELSE UnionOf(node.children, cache)
      [] node.kind \in {"MinValue", "MaxValue"} -> {RealType(st)}
      [] node.kind \in {"Comparison", "LogicalNot", "LogicalAnd", "LogicalOr"} -> {"int8"}
      [] OTHER -> UnionOf(node.children, cache)

\* _assign_dtype: the single dispatch on the node's class
assign_dtype(node, cache, st) ==
    CASE node.kind \in {"Zero", "Identity", "Delta"} -> {RealType(st)}
      [] node.kind = "Literal" -> {node.dtype}
      [] node.kind \in {"Variable", "Failure"} -> {st}
      [] node.kind = "Power" -> {st}
      [] node.kind = "MathFunction" ->
            IF node.name \in {"abs", "real", "imag"} THEN {RealType(st)}
            ELSE IF node.name = "sqrt" THEN {st}
            ELSE UnionOf(node.children, cache)
      [] node.kind \in {"MinValue", "MaxValue"} -> {RealType(st)}
      [] node.kind = "Conditional" ->
            UnionOf(SubSeq(node.children, 2, Len(node.children)), cache)
      [] node.kind \in {"Comparison", "LogicalNot", "LogicalAnd", "LogicalOr"} -> {"int8"}
      [] OTHER -> UnionOf(node.children, cache)

\* the declared scalar types, the dtypes of literal arrays, the nodes
DScalarTypes == {"float64", "complex64"}
LiteralTypes == {"float64", "complex128"}
DTerminals ==
    {DNode("Variable", "", <<>>, ""), DNode("Zero", "", <<>>, "")}
        \cup {DNode("Literal", "", <<>>, t) : t \in LiteralTypes}
\* the classes with operands: kind, name, number of operands
DOperators ==
    {<<"Sum", "", 2>>, <<"Power", "", 2>>, <<"MathFunction", "abs", 1>>,
     <<"MathFunction", "sqrt", 1>>, <<"MathFunction", "sin", 1>>,
     <<"MinValue", "", 2>>, <<"Conditional", "", 3>>, <<"Comparison", "", 2>>,
     <<"ListTensor", "", 0>>}

\* the mapper applied to a node whose operands it has already seen
AssignDtype(node) ==
    /\ Len(dnodes) < MaxDtypeNodes
    /\ exc = ""
    /\ IF NoCandidates(node)
       THEN /\ exc' = "TypeError"
            /\ UNCHANGED <<dnodes, dcache>>
       ELSE /\ dnodes' = Append(dnodes, node)
            /\ dcache' = Append(dcache, assign_dtype(node, dcache, dscalar))
            /\ UNCHANGED exc
    /\ UNCHANGED <<matfree_solve_knl, phase, ctxvars, result, hist, last,
                   scalarvars, exprvars, cgvars, treevars, dscalar>>

AssignTerminal == \E node \in DTerminals : AssignDtype(node)

\* a condition is a comparison or a logical node
IsCondition(node) == node.kind \in {"Comparison", "LogicalNot", "LogicalAnd", "LogicalOr"}

AssignOperator ==
    \E op \in DOperators :
        \E children \in [1 .. op[3] -> DOMAIN dnodes] :
            /\ op[1] = "Conditional" => IsCondition(dnodes[children[1]])
            /\ AssignDtype(DNode(op[1], op[2], children, ""))

InitDtype ==
    /\ InitContext
    /\ ScalarIdle /\ ExprIdle /\ CGIdle /\ TreeIdle
    /\ dscalar \in DScalarTypes /\ dnodes = <<>> /\ dcache = <<>>

NextDtype == AssignTerminal \/ AssignOperator

SpecDtype == InitDtype /\ [][NextDtype]_vars

-----------------------------------------------------------------------------
(* The kernel loopy_matfree_solve builds, run on some input *)

CGInsn(id, dep, writes, reads) ==
    [id |-> id, dep |-> dep, writes |-> writes, reads |-> reads]

\* the instructions before the loop, in the loop `for i_6 ... end`, and after
\* it: id, dep, the variable written, the variables read
CGBefore ==
    <<CGInsn("x0", {}, "x", {}),
      CGInsn("Aonx", {"x0"}, "A_on_x", {"A", "x"}),
      CGInsn("residual0", {"Aonx"}, "r", {"A_on_x", "b"}),
      CGInsn("projector0", {"residual0"}, "p", {"r"}),
      CGInsn("rk_norm0", {"projector0"}, "rk_norm", {}),
      CGInsn("rk_norm1", {"projector0"}, "rk_norm", {"rk_norm", "r"})>>
CGLoop ==
    <<CGInsn("Aonp", {"rk_norm1"}, "A_on_p", {"A", "p"}),
      CGInsn("ponAp0", {"Aonp"}, "p_on_Ap", {}),
      CGInsn("ponAp", {"ponAp0"}, "p_on_Ap", {"p_on_Ap", "p", "A_on_p"}),
      CGInsn("alpha", {"ponAp"}, "alpha", {"rk_norm", "p_on_Ap"}),
      CGInsn("xk", {"ponAp"}, "x", {"x", "alpha", "p"}),
      CGInsn("rk", {"xk"}, "r", {"r", "alpha", "A_on_p"}),
      CGInsn("rkp1_norm0", {"rk"}, "rkp1_norm", {}),
      CGInsn("rkp1_normk", {"rkp1_norm0"}, "rkp1_norm", {"rkp1_norm", "r"}),
      CGInsn("cond", {"rkp1_normk"}, "", {"rkp1_norm"}),
      CGInsn("beta", {"cond"}, "beta", {"rkp1_norm", "rk_norm"}),
      CGInsn("rk_normk", {"beta"}, "rk_norm", {"rkp1_norm"}),
      CGInsn("projectork", {"rk_normk"}, "p", {"beta", "p", "r"}),
      CGInsn("Aonp0", {"rk_normk"}, "A_on_p", {})>>
CGAfter == <<CGInsn("out", {"projectork"}, "output", {"x"})>>

CGAll == CGBefore \o CGLoop \o CGAfter
LoopIds == {CGLoop[k].id : k \in DOMAIN CGLoop}

\* the instructions writing a variable
Writers(v) == {CGAll[k].id : k \in {j \in DOMAIN CGAll : CGAll[j].writes = v}}

\* the instructions one instruction waits for: its dep, and the writer of
\* every variable it reads that has a single writer
DependsOn(insn) ==
    insn.dep \cup UNION {IF Cardinality(Writers(v)) = 1 THEN Writers(v) ELSE {} :
                           v \in insn.reads}

\* the loop domain 0 <= i_6 <= 3*n
InLoopDomain(i_6, n) == 0 <= i_6 /\ i_6 <= 3 * n

\* a run on a system of size n, at its start
NewRun(n) ==
    [n |-> n, pc |-> "before", i_6 |-> 0, iterations |-> 0, trace |-> <<>>,
     converged |-> FALSE, x_updates |-> 0, output |-> -1]

Executed(run) == {run.trace[k] : k \in DOMAIN run.trace}

\* the stop criterion whose break is not taken
stop_criterion_without_break(run, below) == [run EXCEPT !.converged = below]

\* the C instruction "if (rkp1_norm < 0.000001) break;", `below` telling
\* whether rkp1_norm is below the tolerance
stop_criterion(run, below) ==
    IF below THEN [run EXCEPT !.converged = TRUE, !.pc = "after"]
    ELSE [run EXCEPT !.converged = FALSE]

\* the instructions before the loop, then the loop entered with i_6 = 0
CGSetup ==
    /\ cg # NoRun
    /\ cg.pc = "before"
    /\ cg' = IF InLoopDomain(0, cg.n)
             THEN [cg EXCEPT !.pc = "loop", !.i_6 = 0, !.iterations = 1]
             ELSE [cg EXCEPT !.pc = "after"]
    /\ UNCHANGED <<mainvars, scalarvars, exprvars, dtypevars, treevars>>

\* one instruction of the loop body, everything it waits for in this
\* iteration having run
CGStep(k) ==
    /\ cg # NoRun
    /\ cg.pc = "loop"
    /\ CGLoop[k].id \notin Executed(cg)
    /\ (DependsOn(CGLoop[k]) \cap LoopIds) \subseteq Executed(cg)
    /\ \E below \in BOOLEAN :
          LET ran == [cg EXCEPT !.trace = Append(@, CGLoop[k].id)]
          IN  cg' = CASE CGLoop[k].id = "xk" -> [ran EXCEPT !.x_updates = @ + 1]
                      [] CGLoop[k].id = "cond" -> stop_criterion(ran, below)
                      [] OTHER -> ran
    /\ UNCHANGED <<mainvars, scalarvars, exprvars, dtypevars, treevars>>

\* the end of the body: the next i_6, or the end of the loop
CGNextIteration ==
    /\ cg # NoRun
    /\ cg.pc = "loop"
    /\ Executed(cg) = LoopIds
    /\ cg' = IF InLoopDomain(cg.i_6 + 1, cg.n)
             THEN [cg EXCEPT !.i_6 = @ + 1, !.iterations = @ + 1, !.trace = <<>>,
                             !.converged = FALSE]
             ELSE [cg EXCEPT !.pc = "after"]
    /\ UNCHANGED <<mainvars, scalarvars, exprvars, dtypevars, treevars>>

\* output[i_16] = x[i_16]
CGOutput ==
    /\ cg # NoRun
    /\ cg.pc = "after"
    /\ cg' = [cg EXCEPT !.pc = "done", !.output = cg.x_updates]
    /\ UNCHANGED <<mainvars, scalarvars, exprvars, dtypevars, treevars>>

InitCG ==
    /\ InitContext
    /\ ScalarIdle /\ ExprIdle /\ DtypeIdle /\ TreeIdle
    /\ \E n \in 1 .. MaxSize : cg = NewRun(n)

NextCG ==
    \/ CGSetup
    \/ \E k \in DOMAIN CGLoop : CGStep(k)
    \/ CGNextIteration
    \/ CGOutput

SpecCG == InitCG /\ [][NextCG]_vars

-----------------------------------------------------------------------------
(* Properties *)

\* the nodes an expression references: itself and, transitively, its children
RECURSIVE References(_)
References(e) ==
    {e} \cup UNION {References(Nodes[e].children[k]) : k \in DOMAIN Nodes[e].children}

FailureNodes == {n \in NodeIds : Nodes[n].kind = "Failure"}

LastIsLeaf == last.kind \in {"Return", "Evaluate"}
LastReferences ==
    IF last.kind = "Return"
    THEN References(last.variable) \cup References(last.expression)
    ELSE IF last.kind = "Evaluate" THEN References(last.expression)
    ELSE {}

\* C1: every binding an activation added is gone from ctx.active_indices once
\* the activation has been left, whether its body returned or raised.
C1_PoppedOnEveryExit ==
    \A k \in Indices :
        active_indices[k] # NoBinding => active_indices[k].act \notin hist.exited

\* C2: a call returns a program (primary kernel plus inlined auxiliary kernel)
\* exactly when a matrix-free Solve was lowered during that same call.
C2_ProgramIffSolveLowered ==
    phase = "returned" => (result.kind = "program" <=> hist.solve_lowered)

\* C3: a second lookup of a node returns the same name and allocates nothing,
\* and two distinct nodes that have names have different names.
C3_MemoizedAndDistinct ==
    phase = "lowering" =>
        /\ \A n \in NodeIds :
              LET first == gem_to_pym_var(n, Ctx)
                  second == gem_to_pym_var(n, first.ctx)
              IN  first.exc = "" =>
                    /\ second.val = first.val
                    /\ second.ctx = first.ctx
        /\ \A m, n \in NodeIds :
              (m # n /\ gem_to_pymbolic[m] # "" /\ gem_to_pymbolic[n] # "")
                  => gem_to_pymbolic[m] # gem_to_pymbolic[n]

NodeNames == {gem_to_pymbolic[n] : n \in {m \in NodeIds : gem_to_pymbolic[m] # ""}}

\* C4: all generated names are pairwise distinct: no loop-variable name is
\* registered twice (no registry entry is overwritten), no two nodes share a
\* name (temporaries t<i> included), and no loop variable has a node's name.
C4_NamesCollisionFree ==
    /\ \A a, b \in DOMAIN hist.registered :
          a # b => hist.registered[a] # hist.registered[b]
    /\ Len(index_extent) = Len(hist.registered)
    /\ \A m, n \in NodeIds :
          (m # n /\ gem_to_pymbolic[m] # "") => gem_to_pymbolic[m] # gem_to_pymbolic[n]
    /\ ExtentNames(index_extent) \cap NodeNames = {}

\* C5 as stated: over one compilation every node is lowered by _expression at
\* most once.
C5_LoweredAtMostOnce == \A n \in NodeIds : hist.expanded[n] <= 1

\* C5 amended: only a node that has a generated name is kept from being
\* expanded again: a temporary is expanded by its own Evaluate statements
\* only, a Variable at most once by a reference, and a reference to a named
\* node is emitted as the lookup of its name.
C5_NamedNodesReferencedByName ==
    /\ \A n \in NodeIds :
          /\ IsTemporary(n) => hist.expanded[n] = hist.evaluated[n]
          /\ (Nodes[n].kind = "Variable" /\ ~IsTemporary(n))
                => hist.expanded[n] <= 1 + hist.evaluated[n]
    /\ (phase = "lowering" /\ last.kind = "Return" /\ last.expression = 11)
          => LET rhs == instructions[Len(instructions)].rhs
                 lowered == IF return_increments THEN rhs.args[2] ELSE rhs
             IN  lowered.args[1] = PSubscript(PVariable(gem_to_pymbolic[10]),
                                              <<PVariable(active_indices[1].name)>>)

C5_Witness ==
    /\ phase = "lowering" /\ last.kind = "Return" /\ last.expression = 11
    /\ hist.expanded[10] = 0
    /\ hist.expanded[4] >= 2

\* C6: Return(var, expr) emits exactly one assignment, lowered var := lowered
\* expr when overwriting and lowered var := lowered var + lowered expr when
\* accumulating; as the body of one For it leaves one registered loop of the
\* index's extent, and the assignment is tagged with that loop's variable.
C6_ReturnAssignment ==
    (phase = "lowering" /\ last.kind = "Return") =>
        LET insn == instructions[Len(instructions)]
            lhs == expression(last.variable, Ctx, FALSE)
            rhs == expression(last.expression, lhs.ctx, FALSE)
        IN  /\ Len(instructions) = last.n0 + 1
            /\ insn.type = "Assignment"
            /\ lhs.exc = "" /\ rhs.exc = ""
            /\ insn.lhs = lhs.val
            /\ insn.rhs = IF return_increments THEN PNary("Sum", <<lhs.val, rhs.val>>)
                          ELSE rhs.val
            /\ (hist.nodes = 2 /\ Len(scopes) = 1) =>
                  LET k == scopes[1].keys[1]
                  IN  /\ index_extent = <<[name |-> active_indices[k].name,
                                           extent |-> IndexTable[k].extent]>>
                      /\ insn.within_inames = {active_indices[k].name}

\* Return(y[i], A[i] + B[i]) in For(i, extent 3), overwriting: y[i] := A[i] + B[i]
C6_Witness ==
    /\ phase = "lowering" /\ last.kind = "Return" /\ ~return_increments
    /\ index_extent = <<[name |-> "i", extent |-> 3]>>
    /\ instructions =
          <<Instruction("Assignment",
              PSubscript(PVariable("y"), <<PVariable("i")>>),
              PNary("Sum", <<PSubscript(PVariable("A"), <<PVariable("i")>>),
                             PSubscript(PVariable("B"), <<PVariable("i")>>)>>),
              {"i"})>>

\* C7: create_domains yields one domain per registry entry, in registry
\* order; the domain of an index of extent E holds exactly 0 .. E-1; an empty
\* registry yields the single empty-tuple domain.
C7_DomainsOfRegistry ==
    phase = "returned" =>
        IF index_extent = <<>>
        THEN result.domains = <<[inames |-> <<>>, points |-> {<<>>}]>>
        ELSE /\ Len(result.domains) = Len(index_extent)
             /\ \A k \in DOMAIN index_extent :
                   /\ result.domains[k].inames = <<index_extent[k].name>>
                   /\ \A x \in DomainUniverse :
                         <<x>> \in result.domains[k].points
                             <=> x \in 0 .. index_extent[k].extent - 1
                   /\ \A pt \in result.domains[k].points : Len(pt) = 1

C7_Witness ==
    /\ phase = "returned"
    /\ Len(result.domains) >= 2
    /\ \E a, b \in DOMAIN index_extent : index_extent[a].extent # index_extent[b].extent

C9_ByName ==
    PNary("Sum", <<PSubscript(PVariable("A"), <<PVariable("i")>>),
                   PVariable(gem_to_pymbolic[21])>>)

NearestTenth(x) ==
    OneDecimal *
        (CHOOSE t \in -(MaxTenths + 1) .. (MaxTenths + 1) :
            /\ 2 * Abs(x - t * OneDecimal) <= OneDecimal
            /\ 2 * Abs(x - t * OneDecimal) = OneDecimal => t % 2 = 0)

\* C10 as stated: NaN gives the NAN literal; a value within eps of its
\* one-decimal rounding r gives r, also when r is 0; any other value is
\* emitted verbatim.
C10_SnappedWithinResolution ==
    sout # PNone =>
        IF sv.nan THEN sout = PVariable("NAN")
        ELSE IF Abs(sv.x - NearestTenth(sv.x)) < seps
        THEN sout = PFloat(NearestTenth(sv.x))
        ELSE sout = PFloat(sv.x)

\* C10 amended: NaN gives the NAN literal; a value within eps of its
\* one-decimal rounding r gives r only when r is not 0; any other value, also
\* one whose rounding is 0, is emitted verbatim.
C10_SnappedUnlessZero ==
    sout # PNone =>
        IF sv.nan THEN sout = PVariable("NAN")
        ELSE IF NearestTenth(sv.x) # 0 /\ Abs(sv.x - NearestTenth(sv.x)) < seps
        THEN sout = PFloat(NearestTenth(sv.x))
        ELSE sout = PFloat(sv.x)

\* 0.29999999 at resolution 1e-3 is emitted as 0.3
C10_Witness ==
    /\ sv = Value(3 * OneDecimal - 1) /\ seps = 100000
    /\ sout = PFloat(3 * OneDecimal)

\* the value of a subscript expression, the loop variables valued by env
RECURSIVE PEval(_, _), PEvalSum(_, _, _), PEvalProduct(_, _, _)
PEval(pym, env) ==
    CASE pym.op = "Int" -> pym.num
      [] pym.op = "Variable" -> env[pym.name]
      [] pym.op = "Sum" -> PEvalSum(pym.args, 1, env)
      [] pym.op = "Product" -> PEvalProduct(pym.args, 1, env)
PEvalSum(args, k, env) ==
    IF k > Len(args) THEN 0 ELSE PEval(args[k], env) + PEvalSum(args, k + 1, env)
PEvalProduct(args, k, env) ==
    IF k > Len(args) THEN 1 ELSE PEval(args[k], env) * PEvalProduct(args, k + 1, env)

\* the values the registered loop variables take together: each within its extent
Valuations ==
    {env \in [ExtentNames(index_extent) -> 0 .. 2] :
        \A k \in DOMAIN index_extent : env[index_extent[k].name] < index_extent[k].extent}

\* sum over the pairs from k on of value(index) * stride
RECURSIVE StridedSum(_, _, _)
StridedSum(idxs, k, env) ==
    IF k > Len(idxs) THEN 0
    ELSE env[active_indices[idxs[k].index.i].name] * idxs[k].stride
            + StridedSum(idxs, k + 1, env)

\* C11: the lowered FlexiblyIndexed node has one subscript per dimension, in
\* dimension order, and the subscript of a dimension with offset off and
\* pairs (index_k, stride_k) evaluates to off + sum_k value(index_k) * stride_k
\* for every combination of values of the loop variables within their extents.
C11_SubscriptIsAffine ==
    (eroot # 0 /\ Nodes[eroot].kind = "FlexiblyIndexed" /\ eout.exc = "") =>
        LET dim2idxs == Nodes[eroot].dim2idxs
            rank == IndexTuple(eout.val)
        IN  /\ IsSubscript(eout.val)
            /\ Aggregate(eout.val) = PVariable(gem_to_pymbolic[Nodes[eroot].children[1]])
            /\ Len(rank) = Len(dim2idxs)
            /\ \A d \in DOMAIN dim2idxs : \A env \in Valuations :
                  PEval(rank[d], env)
                      = dim2idxs[d].off + StridedSum(dim2idxs[d].idxs, 1, env)

\* A[2 + i*3 + j*1] in For(i){For(j)}, i and j taking 3 * 2 pairs of values
C11_Witness ==
    /\ eroot = 23 /\ eout.exc = ""
    /\ eout.val =
          PSubscript(PVariable("A"),
              <<PNary("Sum", <<PInt(2), PNary("Product", <<PVariable("i"), PInt(3)>>),
                               PNary("Product", <<PVariable("j"), PInt(1)>>)>>)>>)
    /\ Cardinality(Valuations) = 6

\* the dtype assign_dtypes gives the k-th node
DtypeOf(k) == Promote(dcache[k])

\* the classes whose type is a fixed one, whatever their operands
FixedDtype(node) ==
    CASE node.kind = "Power" -> dscalar
      [] node.kind = "MathFunction" /\ node.name = "sqrt" -> dscalar
      [] node.kind = "MathFunction" /\ node.name \in {"abs", "real", "imag"} ->
            RealType(dscalar)
      [] node.kind \in {"MinValue", "MaxValue"} -> RealType(dscalar)
      [] node.kind \in {"Comparison", "LogicalNot", "LogicalAnd", "LogicalOr"} -> "int8"
      [] OTHER -> ""

\* the operands the type of a node is taken from
TypedOperands(node) ==
    IF FixedDtype(node) # "" THEN {}
    ELSE IF node.kind = "Conditional"
    THEN {node.children[k] : k \in 2 .. Len(node.children)}
    ELSE {node.children[k] : k \in DOMAIN node.children}

\* C12 as stated: a node with an operand of complex type has a complex type,
\* and promotion does not depend on order or grouping.
C12_ComplexNeverDropped ==
    /\ \A k \in DOMAIN dnodes : \A j \in DOMAIN dnodes[k].children :
          IsComplexType(DtypeOf(dnodes[k].children[j])) => IsComplexType(DtypeOf(k))
    /\ \A j, k \in DOMAIN dnodes :
          Promote(dcache[j] \cup dcache[k]) = Promote({DtypeOf(j), DtypeOf(k)})

\* C12 amended: a node whose type is taken from its operands (the default
\* rule, MathFunctions other than abs, real, imag and sqrt, and a Conditional
\* for its two branches) is complex when one of those operands is; Power and
\* sqrt have the declared scalar type, abs, real, imag, MinValue and MaxValue
\* the real type, comparisons and logical nodes int8, whatever their
\* operands; promotion does not depend on order or grouping.
C12_ComplexKeptByUnion ==
    /\ \A k \in DOMAIN dnodes :
          /\ \A c \in TypedOperands(dnodes[k]) :
                /\ IsComplexType(DtypeOf(c)) => IsComplexType(DtypeOf(k))
                /\ CanCast(DtypeOf(c), DtypeOf(k))
          /\ FixedDtype(dnodes[k]) # "" => DtypeOf(k) = FixedDtype(dnodes[k])
          /\ TypedOperands(dnodes[k]) # {} =>
                DtypeOf(k) = Promote({DtypeOf(c) : c \in TypedOperands(dnodes[k])})
    /\ \A j, k \in DOMAIN dnodes :
          Promote(dcache[j] \cup dcache[k]) = Promote({DtypeOf(j), DtypeOf(k)})

\* a float64 Variable plus a complex128 Literal is complex128; and float64
\* with complex64 promotes to complex128
C12_Witness ==
    /\ dscalar = "float64"
    /\ \E k \in DOMAIN dnodes :
          /\ dnodes[k].kind = "Sum"
          /\ {DtypeOf(c) : c \in TypedOperands(dnodes[k])} = {"float64", "complex128"}
          /\ DtypeOf(k) = "complex128"

\* C13: for a system of size n the loop body is executed at most 3n times.
C13_AtMost3nIterations == cg # NoRun => cg.iterations <= 3 * cg.n

\* the steps of one iteration, in the order claimed
CGOrder ==
    <<"Aonp", "ponAp", "alpha", "xk", "rk", "rkp1_normk", "cond", "beta",
      "rk_normk", "projectork">>

\* the steps of CGOrder among those run in the current iteration, in the
\* order they ran
RECURSIVE Ordered(_, _)
Ordered(trace, k) ==
    IF k > Len(trace) THEN <<>>
    ELSE IF \E j \in DOMAIN CGOrder : CGOrder[j] = trace[k]
    THEN <<trace[k]>> \o Ordered(trace, k + 1)
    ELSE Ordered(trace, k + 1)

\* C19: in every iteration the steps run in the order Ap, pAp, alpha, x
\* update, r update, rkp1_norm, convergence check, beta, rk_norm update, p
\* update; once the check succeeds nothing more of the loop runs, neither
\* beta, rk_norm and p update nor another iteration, and the output is the x
\* that includes that iteration's update.
C19_StepOrderAndBreak ==
    cg # NoRun =>
        /\ Ordered(cg.trace, 1) = SubSeq(CGOrder, 1, Len(Ordered(cg.trace, 1)))
        /\ cg.converged =>
              /\ cg.pc \in {"after", "done"}
              /\ cg.trace[Len(cg.trace)] = "cond"
              /\ Executed(cg) \cap {"beta", "rk_normk", "projectork", "Aonp0"} = {}
              /\ cg.iterations = cg.i_6 + 1
        /\ cg.pc \in {"after", "done"} => cg.x_updates = cg.iterations
        /\ cg.pc = "done" => cg.output = cg.iterations

\* the check succeeded in the second iteration: x holds two updates
C19_Witness ==
    /\ cg # NoRun
    /\ cg.pc = "done" /\ cg.converged
    /\ cg.iterations = 2 /\ cg.output = 2
    /\ cg.trace = <<"Aonp", "ponAp0", "ponAp", "alpha", "xk", "rk", "rkp1_norm0",
                    "rkp1_normk", "cond">>

\* C14: a For whose index extent is not a positive integer aborts before a
\* name is allocated, a registry entry written or a scope opened; so every
\* extent in the domain registry is positive.
C14_ExtentsPositive ==
    /\ \A k \in DOMAIN index_extent : index_extent[k].extent > 0
    /\ (phase # "idle" /\ last.kind = "For" /\ IndexTable[last.index].extent <= 0)
          => phase = "aborted"

\* the call a Bessel function of the order nu lowers to under a real scalar type
BesselCall(e) ==
    LET name == Nodes[e].name
        nu == Nodes[e].children[1]
        nu_ == expression(nu, Ctx, FALSE).val
        arg_ == expression(Nodes[e].children[2], Ctx, FALSE).val
    IN  CASE name \in {"cyl_bessel_i", "cyl_bessel_k"} ->
                PCall("boost::math::" \o name, <<nu_, arg_>>)
          [] name = "cyl_bessel_j" ->
                IF Nodes[nu].value = Value(0) /\ Nodes[nu].kind = "Constant"
                THEN PCall("j0", <<arg_>>)
                ELSE IF Nodes[nu].value = Value(10 * OneDecimal) /\ Nodes[nu].kind = "Constant"
                THEN PCall("j1", <<arg_>>)
                ELSE PCall("jn", <<nu_, arg_>>)
          [] name = "cyl_bessel_y" ->
                IF Nodes[nu].value = Value(0) /\ Nodes[nu].kind = "Constant"
                THEN PCall("y0", <<arg_>>)
                ELSE IF Nodes[nu].value = Value(10 * OneDecimal) /\ Nodes[nu].kind = "Constant"
                THEN PCall("y1", <<arg_>>)
                ELSE PCall("yn", <<nu_, arg_>>)

IsBessel(e) == e # 0 /\ Nodes[e].kind = "MathFunction" /\ Nodes[e].name \in BesselNames

\* C15 as stated: cyl_bessel_i / cyl_bessel_k raise under a complex scalar
\* type and lower to the qualified call under a real one; cyl_bessel_j /
\* cyl_bessel_y lower to the order-0, order-1 or order-n call.
C15_BesselAsStated ==
    IsBessel(eroot) =>
        IF Nodes[eroot].name \in {"cyl_bessel_i", "cyl_bessel_k"} /\ is_complex(scalar_type)
        THEN eout.exc = "NotImplementedError"
        ELSE eout.exc = "" /\ eout.val = BesselCall(eroot)

\* C15 amended: under a complex scalar type every Bessel function, ordinary
\* or modified, raises the unsupported-operation error; under a real one
\* cyl_bessel_i / cyl_bessel_k lower to the qualified call name(nu, arg) and
\* cyl_bessel_j / cyl_bessel_y to j0/y0(arg) for the literal order 0,
\* j1/y1(arg) for the literal order 1 and jn/yn(nu, arg) otherwise.
C15_BesselRealOnly ==
    IsBessel(eroot) =>
        IF is_complex(scalar_type)
        THEN eout.exc = "NotImplementedError" /\ eout.val = PNone
        ELSE eout.exc = "" /\ eout.val = BesselCall(eroot)

\* cyl_bessel_j of the literal order 1 under float64 is j1(x)
C15_Witness ==
    /\ eroot = 34 /\ scalar_type = "float64"
    /\ eout = [val |-> PCall("j1", <<PVariable("x")>>), exc |-> ""]

\* the loop variables of the scopes open around the statement being lowered
OpenLoopVariables == UNION {{scopes[k].names[j] : j \in DOMAIN scopes[k].names} :
                            k \in DOMAIN scopes}

LeafKinds == {"Return", "Evaluate", "Accumulate", "ReturnAccumulate"}

\* the loop variables a ComponentTensor Evaluate binds for its own
\* multi-index: the leading subscripts of the instruction's left side
OwnLoopVariables(insn) ==
    IF last.kind = "Evaluate" /\ Nodes[last.expression].kind = "ComponentTensor"
    THEN {insn.lhs.args[1 + j].name : j \in DOMAIN Nodes[last.expression].multiindex}
    ELSE {}

\* C16: every instruction is tagged with exactly the loop variables of the
\* scopes open where it is generated: those of all enclosing For nodes and,
\* for a ComponentTensor Evaluate, those of its own multi-index.
C16_TaggedWithOpenScopes ==
    (phase = "lowering" /\ last.kind \in LeafKinds) =>
        \A k \in last.n0 + 1 .. Len(instructions) :
            instructions[k].within_inames
                = OpenLoopVariables \cup OwnLoopVariables(instructions[k])

\* C17: when statement(subtree) returns, ctx.active_indices is what it was
\* when it was called: after a leaf statement, and after a For has been left.
C17_MappingRestored ==
    (phase = "lowering" /\ last.kind \in LeafKinds \cup {"ForExit"}) =>
        ScopeMap(active_indices) = last.before

IsMatfreeSolve(n) == Nodes[n].kind = "Solve" /\ Nodes[n].matfree

\* the kernel loopy_matfree_solve builds for the Solve node n
KernelFor(n) == [name |-> "matfree_cg_kernel", n |-> Nodes[n].shape[1]]

\* the node a call instruction writes: the one named by the variable on its
\* left side
WrittenNode(insn) ==
    CHOOSE n \in NodeIds : gem_to_pymbolic[n] = insn.lhs.args[1].args[1].name

\* the call instructions emitted for matrix-free Solve nodes, by position
MatfreeCalls ==
    {k \in DOMAIN instructions :
        /\ instructions[k].type = "CallInstruction"
        /\ \E n \in NodeIds : /\ IsMatfreeSolve(n)
                              /\ gem_to_pymbolic[n] = instructions[k].lhs.args[1].args[1].name}

LastMatfreeCall == CHOOSE k \in MatfreeCalls : \A j \in MatfreeCalls : j <= k

\* C18: each build replaces the pending kernel: after a matrix-free Solve is
\* lowered the pending kernel is the one built for it (n = its shape[0]);
\* every matrix-free call names matfree_cg_kernel; and generate() returns a
\* program with the one kernel built last and leaves none pending.
C18_OnePendingKernel ==
    /\ (phase = "lowering" /\ last.kind = "Evaluate" /\ IsMatfreeSolve(last.expression))
           => matfree_solve_knl = KernelFor(last.expression)
    /\ \A k \in MatfreeCalls : instructions[k].rhs.name = "matfree_cg_kernel"
    /\ phase = "returned" =>
           /\ matfree_solve_knl = NoKernel
           /\ MatfreeCalls # {} =>
                  /\ result.kind = "program"
                  /\ result.callee = KernelFor(WrittenNode(instructions[LastMatfreeCall]))

\* two matrix-free Solves of different sizes lowered in one call that returned
C18_Witness ==
    /\ phase = "returned"
    /\ \E j, k \in MatfreeCalls :
          /\ j < k
          /\ Nodes[WrittenNode(instructions[j])].shape
                 # Nodes[WrittenNode(instructions[k])].shape
          /\ result.callee.n = Nodes[WrittenNode(instructions[k])].shape[1]

\* C20: Accumulate(acc) and ReturnAccumulate(var, indexsum) emit exactly one
\* assignment lhs := lhs + rhs, rhs the lowering of the index-sum's first
\* operand and lhs the lowered index-sum (Accumulate) or the lowered variable
\* (ReturnAccumulate), whatever return_increments is.
C20_AlwaysAccumulating ==
    (phase = "lowering" /\ last.kind \in {"Accumulate", "ReturnAccumulate"}) =>
        LET insn == instructions[Len(instructions)]
            lhs == expression(IF last.kind = "Accumulate" THEN last.expression
                              ELSE last.variable, Ctx, FALSE)
            rhs == expression(Nodes[last.expression].children[1], lhs.ctx, FALSE)
        IN  /\ Len(instructions) = last.n0 + 1
            /\ insn.type = "Assignment"
            /\ lhs.exc = "" /\ rhs.exc = ""
            /\ insn.lhs = lhs.val
            /\ insn.rhs = PNary("Sum", <<lhs.val, rhs.val>>)

\* both statements lowered in For(i) by an overwriting compilation:
\* t := t + A[i] and y := y + A[i]
C20_Witness ==
    /\ phase = "lowering" /\ ~return_increments
    /\ last.kind \in {"Accumulate", "ReturnAccumulate"}
    /\ \E j, k \in DOMAIN instructions :
          LET t == PVariable(gem_to_pymbolic[28])
              y == expression(3, Ctx, FALSE).val
              a == PSubscript(PVariable("A"), <<PVariable("i")>>)
          IN  /\ gem_to_pymbolic[28] # ""
              /\ instructions[j].lhs = t
              /\ instructions[j].rhs = PNary("Sum", <<t, a>>)
              /\ instructions[k].lhs = y
              /\ instructions[k].rhs = PNary("Sum", <<y, a>>)
              /\ y # t

\* one entry of a multi-index as fetch_multiindex resolves it
Resolved(index) ==
    CASE index.t = "Index" -> PVariable(active_indices[index.i].name)
      [] index.t = "VariableIndex" -> expression(index.i, Ctx, FALSE).val
      [] OTHER -> PInt(index.i)

\* C21: Indexed(base, multiindex) lowers to one subscript of a name: the
\* lowered base's own subscripts first when it is a subscript, then the
\* node's resolved indices in order (loop variable, lowered expression or
\* the integer); never a subscript of a subscript.
C21_IndexedIsFlat ==
    (eroot # 0 /\ Nodes[eroot].kind = "Indexed" /\ eout.exc = "") =>
        LET base == expression(Nodes[eroot].children[1], Ctx, FALSE).val
            r == [k \in DOMAIN Nodes[eroot].multiindex |->
                     Resolved(Nodes[eroot].multiindex[k])]
        IN  /\ eout.val.op = "Subscript"
            /\ eout.val.args[1].op = "Variable"
            /\ eout.val.args =
                  IF base.op = "Subscript" THEN base.args \o r ELSE <<base>> \o r

\* t7[i, A[x]]: the base lowers to the subscript t7[i] and the node's own
\* index is a VariableIndex whose expression lowers to A[x]
C21_Witness ==
    /\ eroot = 47
    /\ eout.val = PSubscript(PVariable("t7"),
                     <<PVariable("i"),
                       PSubscript(PVariable("A"), <<PVariable("x")>>)>>)

\* the candidate sets of a node's operands from position a on
OperandTypes(node, a) == UNION {dcache[node.children[j]] : j \in a .. Len(node.children)}

\* C22: the candidate set of every node follows its kind's rule whatever its
\* operands' sets are: int8 for comparisons and logical nodes; the real type
\* for Zero, Identity, Delta, MinValue, MaxValue and abs/real/imag; the scalar
\* type for Power and sqrt; the array's dtype for a Literal; the two
\* branches' sets for a Conditional; the union of the operands' sets for any
\* other compound node, which is never empty: a node without candidates
\* aborts with an error.
C22_CandidatesByKind ==
    /\ \A k \in DOMAIN dnodes :
          LET node == dnodes[k]
          IN  /\ node.kind \in {"Comparison", "LogicalNot", "LogicalAnd", "LogicalOr"}
                    => dcache[k] = {"int8"}
              /\ \/ node.kind \in {"Zero", "Identity", "Delta", "MinValue", "MaxValue"}
                 \/ node.kind = "MathFunction" /\ node.name \in {"abs", "real", "imag"}
                    => dcache[k] = {RealType(dscalar)}
              /\ \/ node.kind = "Power"
                 \/ node.kind = "MathFunction" /\ node.name = "sqrt"
                    => dcache[k] = {dscalar}
              /\ node.kind = "Literal" => dcache[k] = {node.dtype}
              /\ node.kind = "Conditional" => dcache[k] = OperandTypes(node, 2)
              /\ \/ node.kind \in {"Sum", "ListTensor"}
                 \/ node.kind = "MathFunction" /\ node.name = "sin"
                    => dcache[k] = OperandTypes(node, 1)
              /\ dcache[k] # {}
    /\ exc \in {"", "TypeError"}

\* a Conditional whose condition is a comparison: its candidates are the
\* branches' and the flag type of the condition is not among them
C22_Witness ==
    \E k \in DOMAIN dnodes :
        /\ dnodes[k].kind = "Conditional"
        /\ dcache[dnodes[k].children[1]] = {"int8"}
        /\ dcache[k] = {dscalar}
        /\ "int8" \notin dcache[k]

\* the leaves of a tree from left to right, depth first, each with whether
\* it lies in the body of a For
RECURSIVE LeavesOf(_, _), LeavesFrom(_, _, _)
LeavesFrom(children, k, bound) ==
    IF k > Len(children) THEN <<>>
    ELSE LeavesOf(children[k], bound) \o LeavesFrom(children, k + 1, bound)
LeavesOf(t, bound) ==
    CASE t.kind = "Block" -> LeavesFrom(t.children, 1, bound)
      [] t.kind = "For" -> LeavesOf(t.children[1], TRUE)
      [] OTHER -> <<[leaf |-> t, bound |-> bound]>>

\* the error a leaf raises where it stands: a class without a lowering rule,
\* or a free index (of A[i] + B[i] and of t0[i]) that no For has bound
LeafError(l) ==
    IF l.leaf.kind \notin {"Return", "Evaluate", "Accumulate", "ReturnAccumulate"}
    THEN "AssertionError"
    ELSE IF l.leaf.expression \in {6, 10} /\ ~l.bound THEN "KeyError"
    ELSE ""

\* what each leaf writes and whether it does so in a loop, in order; the
\* Evaluate of a Constant emits nothing
RECURSIVE TargetsFrom(_, _)
TargetsFrom(leaves, k) ==
    IF k > Len(leaves) THEN <<>>
    ELSE LET l == leaves[k]
         IN  (IF Nodes[l.leaf.expression].kind = "Constant" THEN <<>>
              ELSE <<[name |-> IF l.leaf.kind = "Return"
                               THEN Nodes[Nodes[l.leaf.variable].children[1]].name
                               ELSE gem_to_pymbolic[l.leaf.expression],
                      bound |-> l.bound]>>)
             \o TargetsFrom(leaves, k + 1)

\* the variable an instruction writes
RECURSIVE RootName(_)
RootName(pym) == IF pym.op = "Variable" THEN pym.name ELSE RootName(pym.args[1])

====
